---- MODULE Spec2Model ----
(***************************************************************************)
(* NeuroDB storage engine (pkg/core/hybrid_store.go, the sharded version   *)
(* with L0/L1 levels, learned-index persistence and startup checkpoint),   *)
(* together with the SSTable file format (pkg/storage/sstable), the        *)
(* MemTable (pkg/core/memory) and the learned index (pkg/core/learned).    *)
(*                                                                         *)
(* Keys are Go int64.  TLC integers are 32 bits wide, so a key is kept as  *)
(* the pair <<hi, lo>> of its two 32-bit words, each held as the signed    *)
(* integer with that bit pattern.  Files are byte sequences.               *)
(***************************************************************************)
EXTENDS Integers, Sequences, FiniteSets, Bags, TLC

\* ------------------------------------------------------------------------
\* common.KeyType / common.ValueType
\* ------------------------------------------------------------------------

\* The int64 with small value n.
KeyOf(n) == <<IF n < 0 THEN -1 ELSE 0, n>>

\* Unsigned order of two 32-bit patterns held as signed integers.
ULess32(x, y) == IF (x < 0) = (y < 0) THEN x < y ELSE y < 0

\* Signed int64 order: k < m.
KeyLess(k, m) == k[1] < m[1] \/ (k[1] = m[1] /\ ULess32(k[2], m[2]))

KeyLeq(k, m) == k = m \/ KeyLess(k, m)

\* math.MinInt64 and math.MaxInt64.
MinInt32 == (-2147483647) - 1
MaxInt32 == 2147483647
MinKey == <<MinInt32, 0>>
MaxKey == <<MaxInt32, -1>>

\* A value of length zero is the tombstone.
Tombstone == <<>>

Rec(k, v) == [key |-> k, val |-> v]

\* ------------------------------------------------------------------------
\* encoding/binary, little endian
\* ------------------------------------------------------------------------

\* The 4 bytes of a 32-bit word (two's complement).
Word32Bytes(w) == [i \in 1..4 |-> (w \div (256 ^ (i - 1))) % 256]

\* The signed 32-bit integer held in 4 bytes.
Int32Of(b) ==
    b[1] + 256 * b[2] + 65536 * b[3]
      + 16777216 * (IF b[4] >= 128 THEN b[4] - 256 ELSE b[4])

\* binary.Write of an int64: low word first.
Int64Bytes(k) == Word32Bytes(k[2]) \o Word32Bytes(k[1])

\* binary.Read of an int64 from 8 bytes.
Int64Of(b) == <<Int32Of(SubSeq(b, 5, 8)), Int32Of(SubSeq(b, 1, 4))>>

\* A small non-negative int64 (a file offset).
OffsetKey(n) == <<0, n>>

\* ------------------------------------------------------------------------
\* pkg/storage/sstable: file format, Builder, Open, Get, Iterator
\* ------------------------------------------------------------------------

\* One index entry per IndexRate records.  The source has 100 here; the
\* model scales it down with the flush threshold, so that a table of a few
\* records can span more than one index entry.
IndexRate == 3

\* MagicNumber 0x4E4555524F444201 as an int64.
MagicNumber == <<1313166674, 1329873409>>

\* Iterator.Next gives up on a value length above 10 MiB.
MaxValLen == 10485760

\* Builder.Add: one entry, [Key 8B][ValLen 4B][Value].
EntryBytes(r) == Int64Bytes(r.key) \o Word32Bytes(Len(r.val)) \o r.val

RECURSIVE DataBytes(_)
DataBytes(recs) ==
    IF recs = <<>> THEN <<>>
    ELSE EntryBytes(Head(recs)) \o DataBytes(Tail(recs))

\* Builder.offset when record i (from 1) is added.
EntryOffset(recs, i) == Len(DataBytes(SubSeq(recs, 1, i - 1)))

\* Builder.indexKeys / indexOffsets: records 1, 1+IndexRate, ... in order.
IndexCount(recs) == (Len(recs) + IndexRate - 1) \div IndexRate

BuilderIndex(recs) ==
    [j \in 1..IndexCount(recs) |->
        [key |-> recs[(j - 1) * IndexRate + 1].key,
         off |-> EntryOffset(recs, (j - 1) * IndexRate + 1)]]

RECURSIVE IndexBytes(_)
IndexBytes(ix) ==
    IF ix = <<>> THEN <<>>
    ELSE Int64Bytes(Head(ix).key) \o Int64Bytes(OffsetKey(Head(ix).off))
           \o IndexBytes(Tail(ix))

\* The file a Builder leaves after Add(recs[1]) ... Add(recs[n]); Close().
BuilderBytes(recs) ==
    LET data == DataBytes(recs)
    IN  data \o Word32Bytes(IndexCount(recs)) \o IndexBytes(BuilderIndex(recs))
          \o Int64Bytes(OffsetKey(Len(data))) \o Int64Bytes(MagicNumber)

\* Open: reads the footer, checks the magic, loads the sparse index.
RECURSIVE ReadIndex(_, _, _)
ReadIndex(b, p, n) ==
    IF n = 0 THEN <<>>
    ELSE <<[key |-> Int64Of(SubSeq(b, p + 1, p + 8)),
            off |-> Int64Of(SubSeq(b, p + 9, p + 16))[2]]>>
           \o ReadIndex(b, p + 16, n - 1)

Open(b) ==
    IF Len(b) < 16 THEN [ok |-> FALSE, index |-> <<>>]
    ELSE LET size == Len(b)
             indexOffset == Int64Of(SubSeq(b, size - 15, size - 8))[2]
             magic == Int64Of(SubSeq(b, size - 7, size))
         IN  IF magic # MagicNumber THEN [ok |-> FALSE, index |-> <<>>]
             ELSE [ok |-> TRUE,
                   index |-> ReadIndex(b, indexOffset + 4,
                                Int32Of(SubSeq(b, indexOffset + 1, indexOffset + 4)))]

\* Iterator.Next, repeated from file position p until it returns false: the
\* records the iterator yields.  It reads entry after entry to the end of the
\* file; nothing stops it where the index block starts.
RECURSIVE IterFrom(_, _)
IterFrom(b, p) ==
    IF p + 12 > Len(b) THEN <<>>
    ELSE LET k == Int64Of(SubSeq(b, p + 1, p + 8))
             valLen == Int32Of(SubSeq(b, p + 9, p + 12))
         IN  IF valLen < 0 \/ valLen > MaxValLen THEN <<>>
             ELSE IF p + 12 + valLen > Len(b) THEN <<>>
             ELSE <<Rec(k, SubSeq(b, p + 13, p + 12 + valLen))>>
                    \o IterFrom(b, p + 12 + valLen)

\* sort.Search(n, f): the binary search of the Go library.
RECURSIVE SearchFrom(_, _, _, _)
SearchFrom(ix, key, i, j) ==
    IF i >= j THEN i
    ELSE LET h == (i + j) \div 2
         IN  IF ~ KeyLess(key, ix[h + 1].key)
             THEN SearchFrom(ix, key, h + 1, j)
             ELSE SearchFrom(ix, key, i, h)

NotFound == [ok |-> FALSE, val |-> <<>>, panic |-> FALSE]
Found(v) == [ok |-> TRUE, val |-> v, panic |-> FALSE]
Panic == [ok |-> FALSE, val |-> <<>>, panic |-> TRUE]

\* The read loop of SSTable.Get from file position p.
RECURSIVE GetFrom(_, _, _)
GetFrom(b, p, key) ==
    IF p + 12 > Len(b) THEN NotFound
    ELSE LET ck == Int64Of(SubSeq(b, p + 1, p + 8))
             valLen == Int32Of(SubSeq(b, p + 9, p + 12))
         IN  IF valLen < 0 THEN Panic            \* make([]byte, valLen)
             ELSE IF p + 12 + valLen > Len(b) THEN NotFound
             ELSE IF ck = key THEN Found(SubSeq(b, p + 13, p + 12 + valLen))
             ELSE IF KeyLess(key, ck) THEN NotFound
             ELSE GetFrom(b, p + 12 + valLen, key)

\* SSTable.Get on the table opened from file bytes b.
SSTableGet(b, key) ==
    LET ix == Open(b).index
        idx == SearchFrom(ix, key, 0, Len(ix))
        startIdx == IF idx - 1 < 0 THEN 0 ELSE idx - 1
    IN  IF Len(ix) = 0 THEN Panic                \* indexOffsets[0] of an empty index
        ELSE GetFrom(b, ix[startIdx + 1].off, key)

\* ------------------------------------------------------------------------
\* pkg/core/memory: MemTable, 16 sub-maps selected by key & 15
\* ------------------------------------------------------------------------

MemShardCount == 16

\* A MemTable is the function from the keys it holds to their values.
NewMemTable == << >>

MemPut(m, key, val) ==
    [x \in (DOMAIN m) \cup {key} |-> IF x = key THEN val ELSE m[x]]

MemGet(m, key) == IF key \in DOMAIN m THEN Found(m[key]) ELSE NotFound

MemCount(m) == Cardinality(DOMAIN m)

\* int64(key) & mask
MemShardOf(key) == key[2] % MemShardCount

\* The keys of S in ascending order (a B-tree's Ascend).
RECURSIVE Ascend(_)
Ascend(S) ==
    IF S = {} THEN <<>>
    ELSE LET k == CHOOSE x \in S : \A y \in S : KeyLeq(x, y)
         IN  <<k>> \o Ascend(S \ {k})

RECURSIVE MemWalk(_, _, _)
MemWalk(m, S, i) ==
    IF i >= MemShardCount THEN <<>>
    ELSE LET ks == Ascend({k \in S : MemShardOf(k) = i})
         IN  [j \in 1..Len(ks) |-> Rec(ks[j], m[ks[j]])] \o MemWalk(m, S, i + 1)

\* MemTable.Iterator: sub-map after sub-map, each one ascending.
MemIterator(m) == MemWalk(m, DOMAIN m, 0)

\* MemTable.Scan(low, high): sub-map after sub-map, the items in [low, high].
MemScan(m, low, high) ==
    MemWalk(m, {k \in DOMAIN m : KeyLeq(low, k) /\ KeyLeq(k, high)}, 0)

\* ------------------------------------------------------------------------
\* pkg/core/structure: Bloom filter
\* ------------------------------------------------------------------------

\* The filter is kept as the set of keys added to it: Contains is true of
\* every added key (all its bits were set by Add).
NewBloomFilter == {}
BloomAdd(bf, key) == bf \cup {key}
BloomContains(bf, key) == key \in bf

\* ------------------------------------------------------------------------
\* pkg/core/learned: LearnedIndex
\* ------------------------------------------------------------------------

\* RMIModel.Predict.  The regression runs on floats; a model is kept as the
\* table of the positions it predicts that differ from 0, and Train yields
\* the model the code computes when no bucket holds two distinct keys
\* (solve() finds a zero denominator and sets slope and intercept to 0).
Predict(model, key) == IF key \in DOMAIN model THEN model[key] ELSE 0
Train(keys) == << >>

Min2(a, b) == IF a < b THEN a ELSE b
Max2(a, b) == IF a > b THEN a ELSE b

\* sort.Slice(data, by key).  The sort is not stable: records with equal keys
\* may come out in any order.
RECURSIVE SortSlice(_, _)
SortSlice(data, idxs) ==
    IF idxs = {} THEN {<<>>}
    ELSE LET mins == {i \in idxs : \A j \in idxs : ~ KeyLess(data[j].key, data[i].key)}
         IN  UNION {{<<data[i]>> \o rest : rest \in SortSlice(data, idxs \ {i})}
                    : i \in mins}

\* The loop of Build over the keys: minErr and maxErr, both starting at 0.
RECURSIVE MinErrFrom(_, _, _)
MinErrFrom(recs, model, i) ==
    IF i > Len(recs) THEN 0
    ELSE Min2((i - 1) - Predict(model, recs[i].key), MinErrFrom(recs, model, i + 1))

\* A Build that never raises maxErr.
MaxErrFromNone(recs, model, i) == 0

RECURSIVE MaxErrFrom(_, _, _)
MaxErrFrom(recs, model, i) ==
    IF i > Len(recs) THEN 0
    ELSE Max2((i - 1) - Predict(model, recs[i].key), MaxErrFrom(recs, model, i + 1))

\* Build from the trained model on: the error loop and the index returned.
BuildWith(sorted, model) ==
    [Records |-> sorted,
     Model |-> model,
     MinErr |-> MinErrFrom(sorted, model, 1),
     MaxErr |-> MaxErrFrom(sorted, model, 1)]

\* The index Build leaves once sort.Slice has put the records in order sorted.
BuildSorted(sorted) ==
    BuildWith(sorted, Train([i \in 1..Len(sorted) |-> sorted[i].key]))

\* Build(data): one index per order the sort may leave.
Build(data) == {BuildSorted(sorted) : sorted \in SortSlice(data, 1..Len(data))}

\* LearnedIndex.Get, linear scan of the window [low, high] (0-based).
RECURSIVE LinearScan(_, _, _, _)
LinearScan(recs, key, i, high) ==
    IF i > high THEN NotFound
    ELSE IF recs[i + 1].key = key THEN Found(recs[i + 1].val)
    ELSE IF KeyLess(key, recs[i + 1].key) THEN NotFound
    ELSE LinearScan(recs, key, i + 1, high)

\* sort.Search over the window: first position whose key is >= key.
RECURSIVE WindowSearch(_, _, _, _, _)
WindowSearch(recs, low, key, i, j) ==
    IF i >= j THEN i
    ELSE LET h == (i + j) \div 2
         IN  IF KeyLess(recs[low + h + 1].key, key)
             THEN WindowSearch(recs, low, key, h + 1, j)
             ELSE WindowSearch(recs, low, key, i, h)

LearnedGet(li, key) ==
    IF Len(li.Records) = 0 THEN NotFound
    ELSE LET predictedPos == Predict(li.Model, key)
             low == Max2(predictedPos + li.MinErr, 0)
             high == Min2(predictedPos + li.MaxErr, Len(li.Records) - 1)
         IN  IF low > high THEN NotFound
             ELSE IF high - low < 16 THEN LinearScan(li.Records, key, low, high)
             ELSE LET idx == WindowSearch(li.Records, low, key, 0, high - low + 1)
                  IN  IF idx < high - low + 1 /\ li.Records[low + idx + 1].key = key
                      THEN Found(li.Records[low + idx + 1].val)
                      ELSE NotFound

\* LearnedIndex.Scan(lowKey, highKey).
RECURSIVE StepBack(_, _, _)
StepBack(recs, lowKey, i) ==
    IF i > 0 /\ KeyLeq(lowKey, recs[i + 1].key)
    THEN StepBack(recs, lowKey, i - 1) ELSE i

RECURSIVE StepForward(_, _, _)
StepForward(recs, lowKey, i) ==
    IF i < Len(recs) /\ KeyLess(recs[i + 1].key, lowKey)
    THEN StepForward(recs, lowKey, i + 1) ELSE i

RECURSIVE Collect(_, _, _, _)
Collect(recs, lowKey, highKey, i) ==
    IF i >= Len(recs) THEN <<>>
    ELSE IF KeyLess(highKey, recs[i + 1].key) THEN <<>>
    ELSE (IF KeyLeq(lowKey, recs[i + 1].key) THEN <<recs[i + 1]>> ELSE <<>>)
           \o Collect(recs, lowKey, highKey, i + 1)

LearnedScan(li, lowKey, highKey) ==
    IF Len(li.Records) = 0 THEN <<>>
    ELSE LET pos == Predict(li.Model, lowKey)
             s0 == Min2(Max2(pos + li.MinErr, 0), Len(li.Records) - 1)
             s1 == StepBack(li.Records, lowKey, s0)
             s2 == StepForward(li.Records, lowKey, s1)
         IN  Collect(li.Records, lowKey, highKey, s2)

\* ------------------------------------------------------------------------
\* pkg/storage: the WAL and the disk backend over it
\* ------------------------------------------------------------------------

HeaderSize == 24

\* The checksum of Append and Next over header[12:] and the value.  The
\* code computes CRC-32 (IEEE) of these bytes; the model computes their sum,
\* also a function of these bytes alone, in the same 4 bytes of the header.
RECURSIVE SumBytes(_)
SumBytes(b) == IF b = <<>> THEN 0 ELSE Head(b) + SumBytes(Tail(b))
Checksum(b) == Word32Bytes(SumBytes(b))

\* binary.LittleEndian.Uint32
Uint32Of(b) == b[1] + 256 * b[2] + 65536 * b[3] + 16777216 * b[4]

\* An entry whose header has the key before the timestamp.
WalFrameKeyFirst(rec, ts) ==
    LET tail == Int64Bytes(ts) \o Word32Bytes(Len(rec.val))
    IN  Checksum(tail \o rec.val) \o Int64Bytes(rec.key) \o tail \o rec.val

\* WAL.Append at time ts: the bytes of one entry, [CRC 4][timestamp 8]
\* [key 8][value size 4][value].
WalFrame(rec, ts) ==
    LET tail == Int64Bytes(rec.key) \o Word32Bytes(Len(rec.val))
    IN  Checksum(tail \o rec.val) \o Int64Bytes(ts) \o tail \o rec.val

\* WALIterator.Next with the reader at position p of the file bytes w: the
\* record and the position after it, or the error.
WalNext(w, p) ==
    IF p + HeaderSize > Len(w)
    THEN [err |-> IF p = Len(w) THEN "EOF" ELSE "unexpected EOF",
          rec |-> Rec(KeyOf(0), <<>>), pos |-> Len(w)]
    ELSE LET header == SubSeq(w, p + 1, p + HeaderSize)
             valSize == Uint32Of(SubSeq(header, 21, 24))
             value == SubSeq(w, p + HeaderSize + 1, p + HeaderSize + valSize)
         IN  IF p + HeaderSize + valSize > Len(w)
             THEN [err |-> "wal: corrupted value", rec |-> Rec(KeyOf(0), <<>>), pos |-> Len(w)]
             ELSE IF Checksum(SubSeq(header, 13, 24) \o value) # SubSeq(header, 1, 4)
             THEN [err |-> "wal: crc mismatch", rec |-> Rec(KeyOf(0), <<>>),
                   pos |-> p + HeaderSize + valSize]
             ELSE [err |-> "", rec |-> Rec(Int64Of(SubSeq(header, 13, 20)), value),
                   pos |-> p + HeaderSize + valSize]

\* A reader that steps over an entry with a CRC mismatch and reads on.
RECURSIVE WalIterSkipping(_, _)
WalIterSkipping(w, p) ==
    LET n == WalNext(w, p)
    IN  IF n.err = "wal: crc mismatch" THEN WalIterSkipping(w, n.pos)
        ELSE IF n.err # "" THEN <<>>
        ELSE <<n.rec>> \o WalIterSkipping(w, n.pos)

\* The records an iterator yields from position p until its first error.
RECURSIVE WalIterFrom(_, _)
WalIterFrom(w, p) ==
    LET n == WalNext(w, p)
    IN  IF n.err # "" THEN <<>> ELSE <<n.rec>> \o WalIterFrom(w, n.pos)

\* The error that ends the iteration from position p.
RECURSIVE WalEndFrom(_, _)
WalEndFrom(w, p) ==
    LET n == WalNext(w, p)
    IN  IF n.err # "" THEN n.err ELSE WalEndFrom(w, n.pos)

\* WAL.NewIterator and Next until it returns an error: the records yielded.
WalIterate(w) == WalIterFrom(w, 0)

\* WAL.Size: the length of the file.
WalSize(w) == Len(w)

\* A truncation that leaves the file as it is.
WalTruncateNothing(w) == w

\* WAL.Truncate: the file afterwards.
WalTruncate(w) == <<>>

\* The time in the entries the engine writes, which no code reads back.
NoTime == OffsetKey(0)

\* DiskBackend.BatchWrite(buffer): every record appended to the WAL, in order.
RECURSIVE BatchWrite(_, _)
BatchWrite(w, buffer) ==
    IF buffer = <<>> THEN w
    ELSE BatchWrite(w \o WalFrame(Head(buffer), NoTime), Tail(buffer))

\* DiskBackend.LoadAll: the records of the WAL, in file order.
LoadAll(w) == WalIterate(w)

\* ------------------------------------------------------------------------
\* pkg/config: the configuration the engine is built with
\* ------------------------------------------------------------------------

ShardCount == 1
MemTableFlushThreshold == 2
CompactionThreshold == 1
WalBufferSize == 2
WalBatchSize == 2

\* adaptiveFlush returns at once below this MemTable count.  The source has
\* 100 here; the model scales it down with MemTableFlushThreshold so that a
\* flush happens after a few Puts.
MinFlushCount == 2

\* Number of Put and Delete calls in a run.
MaxOps == 3

Shards == 0..(ShardCount - 1)

\* The keys the callers use, and the value of the n-th write of a run: every
\* Put writes a value no earlier Put wrote, so that a read tells which write
\* it saw.
Keys == {KeyOf(0), KeyOf(1), KeyOf(16)}
ValueOf(n) == <<97 + n>>

\* Ghost value of a key that was never written.
Never == <<-1>>

\* ------------------------------------------------------------------------
\* pkg/core: Shard and HybridStore
\* ------------------------------------------------------------------------

VARIABLES
    shards,      \* hs.shards: per shard the MemTable, indexes, tables, Bloom filter
    sstFiles,    \* the *.sst files of the data directory
    liFiles,     \* the *.li files of the data directory
    wal,         \* the records of the WAL file, in append order
    writeCh,     \* hs.writeCh, a channel of capacity WalBufferSize
    helpers,     \* records held by the goroutines Put spawned on a full channel
    walBuffer,   \* the buffer of backgroundPersist
    phase,       \* "running" from the constructor's return until Close
    spawned,     \* per shard: compactShard goroutines started by `go`, not yet run
    comp,        \* per shard: the compactShard call that holds compactionLock
    clock,       \* time.Now().UnixNano()
    writeCount,  \* stats.WriteCount
    latest,      \* ghost: per key the value of the last Put or Delete
    atClose,     \* ghost: latest at the last Close
    replayed,    \* ghost: what the last constructor replayed and checkpointed
    loaded,      \* ghost: per shard the *.li file the last constructor loaded
    restarted,   \* ghost: the directory was reopened at least once
    before,      \* ghost: per shard what Get and Scan returned when its compaction began
    ops,         \* ghost: number of Put and Delete calls so far
    built,       \* package learned on its own: the data given to Build and the index built
    appended,    \* package storage on its own: the records appended since the WAL was last empty
    truncated,   \* package storage on its own: the records the last WAL.Truncate removed
    pc,          \* calls seen step by step: per caller the call it is in and where
    mutex,       \* calls seen step by step: per shard the holders of shard.mutex
    closedTables, \* the engine after Close: the tables whose file Close has closed
    fileOffset,  \* lookups seen read by read: per open table the position of its file
    compactionLock \* compactions seen step by step: per shard whether shard.compactionLock is held

\* No WAL.Truncate was called.
NeverTruncated == -1

\* The callers whose calls are followed step by step, a caller outside a
\* call, and a shard.mutex nobody holds.
Callers == {"w1", "w2", "r1", "r2"}
Writers == {"w1", "w2"}
Readers == {"r1", "r2"}
LiveReaders == {"r1"}
Idle == [at |-> "idle", key |-> KeyOf(0), val |-> <<>>]
Unlocked == [writer |-> "", readers |-> {}]

\* The variables of the packages checked on their own and of the calls seen
\* step by step, which the engine's atomic operations leave alone.
unitVars == <<built, appended, truncated, pc, mutex, closedTables, fileOffset, compactionLock>>

storeVars == <<shards, sstFiles, liFiles, wal, writeCh, helpers, walBuffer, phase,
               spawned, comp, clock, writeCount, latest, atClose, replayed, loaded, restarted,
               before, ops>>

vars == <<shards, sstFiles, liFiles, wal, writeCh, helpers, walBuffer, phase,
          spawned, comp, clock, writeCount, latest, atClose, replayed, loaded, restarted, before, ops,
          built, appended, truncated, pc, mutex, closedTables, fileOffset, compactionLock>>

\* NewShard
NewShard(id) ==
    [id |-> id,
     mutableMem |-> NewMemTable,
     learnedIndexes |-> <<>>,
     l0SSTables |-> <<>>,
     l1SSTables |-> <<>>,
     sstables |-> <<>>,
     bloom |-> NewBloomFilter]

\* Shard.rebuildSSTableViewLocked
rebuildSSTableViewLocked(sh) ==
    [sh EXCEPT !.sstables = sh.l1SSTables \o sh.l0SSTables]

\* int(key) % ShardCount with Go's remainder, which takes the sign of key.
Pow32Mod(n) == ((65536 % n) * (65536 % n)) % n
KeyMod(key, n) ==
    LET lo == IF key[2] < 0 THEN ((key[2] % n) + Pow32Mod(n)) % n ELSE key[2] % n
    IN  ((((key[1] % n) * Pow32Mod(n)) % n) + lo) % n
GoRem(key, n) ==
    LET r == KeyMod(key, n)
    IN  IF key[1] < 0 /\ r # 0 THEN r - n ELSE r

\* HybridStore.getShard: the index into hs.shards.
getShard(key) == GoRem(key, ShardCount)

\* An SSTable file: its name (shard, level, timestamp, suffix) and its bytes,
\* which are what the Builder wrote for the records it was given, in the
\* order of the Add calls.  Its mtime is the time it was written.
SSTFile(id, level, ts, kind, recs) ==
    [shard |-> id, level |-> level, ts |-> ts, kind |-> kind,
     bytes |-> BuilderBytes(recs)]

FileBytes(t) == t.bytes

\* SSTable.NewIterator followed by Next until it returns false.  The
\* iterator opens the file by name: a removed file yields nothing.
IterRecords(t, files) == IF t \in files THEN IterFrom(FileBytes(t), 0) ELSE <<>>

\* A flush that writes the table and keeps the MemTable.
adaptiveFlushKeepingMem(sh, now) ==
    IF MemCount(sh.mutableMem) < MinFlushCount
    THEN [shard |-> sh, created |-> {}, spawn |-> FALSE]
    ELSE LET sst == SSTFile(sh.id, 0, now, "l0", MemIterator(sh.mutableMem))
             sh1 == rebuildSSTableViewLocked([sh EXCEPT !.l0SSTables = Append(@, sst)])
         IN  [shard |-> sh1, created |-> {sst},
              spawn |-> Len(sh1.l0SSTables) >= CompactionThreshold]

\* HybridStore.adaptiveFlush under the shard lock, at time now: the shard
\* afterwards, the file created, and whether `go compactShard` was started.
adaptiveFlush(sh, now) ==
    IF MemCount(sh.mutableMem) < MinFlushCount
    THEN [shard |-> sh, created |-> {}, spawn |-> FALSE]
    ELSE LET sst == SSTFile(sh.id, 0, now, "l0", MemIterator(sh.mutableMem))
             sh1 == rebuildSSTableViewLocked([sh EXCEPT !.l0SSTables = Append(@, sst)])
         IN  [shard |-> [sh1 EXCEPT !.mutableMem = NewMemTable],
              created |-> {sst},
              spawn |-> Len(sh1.l0SSTables) >= CompactionThreshold]

\* The part of Put under the shard lock.
PutLocked(sh, key, val, now) ==
    LET sh1 == [sh EXCEPT !.bloom = BloomAdd(@, key),
                          !.mutableMem = MemPut(@, key, val)]
    IN  IF MemCount(sh1.mutableMem) >= MemTableFlushThreshold
        THEN adaptiveFlush(sh1, now)
        ELSE [shard |-> sh1, created |-> {}, spawn |-> FALSE]

\* The first layer that answers, layers given newest first; a layer that
\* panics before any answer takes the call down with it.
RECURSIVE FirstHit(_)
FirstHit(results) ==
    IF results = <<>> THEN NotFound
    ELSE IF Head(results).panic THEN Panic
    ELSE IF Head(results).ok THEN Head(results)
    ELSE FirstHit(Tail(results))

\* The layers HybridStore.Get consults for key: MemTable, then the learned
\* indexes from the last to the first, then shard.sstables from the last to
\* the first.
GetLayers(sh, key) ==
    LET nl == Len(sh.learnedIndexes)
        nt == Len(sh.sstables)
    IN  <<MemGet(sh.mutableMem, key)>>
          \o [i \in 1..nl |-> LearnedGet(sh.learnedIndexes[nl + 1 - i], key)]
          \o [i \in 1..nt |-> SSTableGet(FileBytes(sh.sstables[nt + 1 - i]), key)]

\* HybridStore.Get(key) on shard state sh.
ShardGet(sh, key) ==
    IF ~ BloomContains(sh.bloom, key) THEN NotFound
    ELSE LET r == FirstHit(GetLayers(sh, key))
         IN  IF r.ok /\ Len(r.val) = 0 THEN NotFound ELSE r

\* HybridStore.Get(key).
Get(key) == ShardGet(shards[getShard(key)], key)

\* mergedMap[k] = v for the records of recs, in order.
RECURSIVE ApplyRecords(_, _)
ApplyRecords(map, recs) ==
    IF recs = <<>> THEN map
    ELSE ApplyRecords(MemPut(map, Head(recs).key, Head(recs).val), Tail(recs))

\* The loop of Scan over one table's iterator: the records that reach
\* mergedMap, up to the first key above end.
RECURSIVE ScanTable(_, _, _)
ScanTable(recs, start, end) ==
    IF recs = <<>> THEN <<>>
    ELSE IF KeyLess(end, Head(recs).key) THEN <<>>
    ELSE (IF KeyLeq(start, Head(recs).key) THEN <<Head(recs)>> ELSE <<>>)
           \o ScanTable(Tail(recs), start, end)

RECURSIVE ScanTables(_, _, _, _, _)
ScanTables(map, tables, files, start, end) ==
    IF tables = <<>> THEN map
    ELSE ScanTables(ApplyRecords(map, ScanTable(IterRecords(Head(tables), files), start, end)),
                    Tail(tables), files, start, end)

RECURSIVE ScanIndexes(_, _, _, _)
ScanIndexes(map, lis, start, end) ==
    IF lis = <<>> THEN map
    ELSE ScanIndexes(ApplyRecords(map, LearnedScan(Head(lis), start, end)),
                     Tail(lis), start, end)

\* The body of Scan's loop for one shard.
ScanShard(map, sh, files, start, end) ==
    ApplyRecords(
        ScanIndexes(ScanTables(map, sh.sstables, files, start, end),
                    sh.learnedIndexes, start, end),
        MemScan(sh.mutableMem, start, end))

RECURSIVE ScanShards(_, _, _, _, _, _)
ScanShards(map, shs, id, files, start, end) ==
    IF id >= ShardCount THEN map
    ELSE ScanShards(ScanShard(map, shs[id], files, start, end), shs, id + 1,
                    files, start, end)

\* A Scan that returns the tombstones with the rest.
StoreScanWithTombstones(shs, files, start, end) ==
    LET mergedMap == ScanShards(<< >>, shs, 0, files, start, end)
        ks == Ascend(DOMAIN mergedMap)
    IN  [i \in 1..Len(ks) |-> Rec(ks[i], mergedMap[ks[i]])]

\* Scan(start, end) on the shards shs with the files on disk: tombstones
\* filtered, ascending by key.
StoreScan(shs, files, start, end) ==
    LET mergedMap == ScanShards(<< >>, shs, 0, files, start, end)
        ks == Ascend({k \in DOMAIN mergedMap : Len(mergedMap[k]) > 0})
    IN  [i \in 1..Len(ks) |-> Rec(ks[i], mergedMap[ks[i]])]

\* HybridStore.Scan(start, end).
Scan(start, end) == StoreScan(shards, sstFiles, start, end)

\* The merge loop of compactShard.  iters holds, per live iterator, the
\* records it has still to yield, the current one first.
RemoveAt(seq, i) == SubSeq(seq, 1, i - 1) \o SubSeq(seq, i + 1, Len(seq))

RECURSIVE DropExhausted(_)
DropExhausted(iters) ==
    IF iters = <<>> THEN <<>>
    ELSE (IF Head(iters) = <<>> THEN <<>> ELSE <<Head(iters)>>)
           \o DropExhausted(Tail(iters))

RECURSIVE MergeLoop(_)
MergeLoop(iters) ==
    IF iters = <<>> THEN <<>>
    ELSE LET n == Len(iters)
             minKey == LET i == CHOOSE i \in 1..n :
                                  \A j \in 1..n : KeyLeq(iters[i][1].key, iters[j][1].key)
                       IN  iters[i][1].key
             bestIterIdx == CHOOSE i \in 1..n :
                               /\ iters[i][1].key = minKey
                               /\ \A j \in 1..n : iters[j][1].key = minKey => j <= i
             winner == iters[bestIterIdx]
         IN  <<winner[1]>> \o
             (IF Len(winner) = 1
              THEN MergeLoop(RemoveAt(iters, bestIterIdx))
              ELSE MergeLoop(DropExhausted(
                     [i \in 1..n |->
                        IF i = bestIterIdx \/ iters[i][1].key = minKey
                        THEN Tail(iters[i]) ELSE iters[i]])))

\* compactShard from the iterators to builder.Close(): the records added to
\* the output builder.
CompactMerge(inputTables, files) ==
    MergeLoop(DropExhausted([i \in 1..Len(inputTables) |->
                               IterRecords(inputTables[i], files)]))

\* latestByKey of rebuildLearnedIndexFromSSTables: tables from the last to
\* the first, the first value seen for a key kept.
RECURSIVE KeepFirst(_, _)
KeepFirst(map, recs) ==
    IF recs = <<>> THEN map
    ELSE KeepFirst(IF Head(recs).key \in DOMAIN map THEN map
                   ELSE MemPut(map, Head(recs).key, Head(recs).val),
                   Tail(recs))

RECURSIVE LatestFromTables(_, _, _, _)
LatestFromTables(map, tables, files, i) ==
    IF i = 0 THEN map
    ELSE LatestFromTables(KeepFirst(map, IterRecords(tables[i], files)),
                          tables, files, i - 1)

\* The records of a map, in some order (Go's map iteration).
MapRecords(map) ==
    LET ks == Ascend(DOMAIN map)
    IN  [i \in 1..Len(ks) |-> Rec(ks[i], map[ks[i]])]

\* rebuildLearnedIndexFromSSTables up to the assignment of
\* shard.learnedIndexes: the new value of that field.  The keys of
\* latestByKey are distinct, so Build has one outcome.
RebuiltIndexes(tables, files) ==
    LET latestByKey == LatestFromTables(<< >>, tables, files, Len(tables))
    IN  IF Len(tables) = 0 \/ DOMAIN latestByKey = {} THEN <<>>
        ELSE <<BuildSorted(MapRecords(latestByKey))>>

\* learnedIndexSignature: name, size and mtime of every table of the view,
\* "" when the view is empty or a file is gone.  The model keeps the hashed
\* text instead of its 64-bit hash.
learnedIndexSignature(sh, files) ==
    IF \E i \in 1..Len(sh.sstables) : sh.sstables[i] \notin files THEN <<>>
    ELSE [i \in 1..Len(sh.sstables) |->
            LET t == sh.sstables[i]
            IN  <<t.shard, t.level, t.ts, t.kind, Len(FileBytes(t)), t.ts>>]

\* gob: a field holding its zero value is left out by the encoder and keeps
\* the zero value in the decoder.
GobRecord(r) ==
    (IF r.key = KeyOf(0) THEN <<>> ELSE <<<<"Key", r.key>>>>)
      \o (IF Len(r.val) = 0 THEN <<>> ELSE <<<<"Value", r.val>>>>)

GobField(enc, name, zero) ==
    IF \E i \in 1..Len(enc) : enc[i][1] = name
    THEN enc[CHOOSE i \in 1..Len(enc) : enc[i][1] = name][2]
    ELSE zero

\* LearnedIndex.Save: the content of the file.
Save(li) ==
    (IF Len(li.Records) = 0 THEN <<>>
     ELSE <<<<"Records", [i \in 1..Len(li.Records) |-> GobRecord(li.Records[i])]>>>>)
      \o <<<<"Model", li.Model>>>>
      \o (IF li.MinErr = 0 THEN <<>> ELSE <<<<"MinErr", li.MinErr>>>>)
      \o (IF li.MaxErr = 0 THEN <<>> ELSE <<<<"MaxErr", li.MaxErr>>>>)

\* learned.Load of a file with content enc.
Load(enc) ==
    LET rs == GobField(enc, "Records", <<>>)
    IN  [Records |-> [i \in 1..Len(rs) |->
                        Rec(GobField(rs[i], "Key", KeyOf(0)),
                            GobField(rs[i], "Value", <<>>))],
         Model |-> GobField(enc, "Model", << >>),
         MinErr |-> GobField(enc, "MinErr", 0),
         MaxErr |-> GobField(enc, "MaxErr", 0)]

\* persistLearnedIndex: the *.li files afterwards.
persistLearnedIndex(sh, li, files, lis) ==
    LET sig == learnedIndexSignature(sh, files)
    IN  IF sig = <<>> THEN lis
        ELSE {f \in lis : f.shard # sh.id}
               \cup {[shard |-> sh.id, sig |-> sig, content |-> Save(li)]}

\* Ghost: what Get returns for every key and Scan for every range between
\* two keys.
NoBefore == [valid |-> FALSE, gets |-> << >>, scans |-> << >>]
Observed ==
    [valid |-> TRUE,
     gets |-> [k \in Keys |-> Get(k)],
     scans |-> [r \in Keys \X Keys |-> Scan(r[1], r[2])]]

\* No index was built.
NoIndex == [data |-> <<>>, model |-> << >>, li |-> <<>>]

\* Ghost: nothing was loaded.
NoLoad == [hit |-> FALSE, li |-> <<>>, fresh |-> <<>>]

\* The state of a shard's compactShard call: where it stands, its
\* inputTables, its newSST and the index its rebuild installed.
NoCompaction == [pc |-> "idle", inputTables |-> <<>>, newSST |-> <<>>, rebuilt |-> <<>>]

\* NewHybridStore on an empty data directory.
InitStore ==
    /\ shards = [id \in Shards |-> NewShard(id)]
    /\ sstFiles = {}
    /\ liFiles = {}
    /\ wal = <<>>
    /\ writeCh = <<>>
    /\ helpers = EmptyBag
    /\ walBuffer = <<>>
    /\ phase = "running"
    /\ spawned = [id \in Shards |-> 0]
    /\ comp = [id \in Shards |-> NoCompaction]
    /\ clock = 1
    /\ writeCount = 0
    /\ latest = [k \in Keys |-> Never]
    /\ atClose = [k \in Keys |-> Never]
    /\ replayed = [wal |-> <<>>, tables |-> {}]
    /\ loaded = [id \in Shards |-> NoLoad]
    /\ restarted = FALSE
    /\ before = [id \in Shards |-> NoBefore]
    /\ ops = 0

Init ==
    /\ InitStore
    /\ built = NoIndex
    /\ appended = <<>>
    /\ truncated = NeverTruncated
    /\ pc = [c \in Callers |-> Idle]
    /\ mutex = [id \in Shards |-> Unlocked]
    /\ closedTables = {}
    /\ fileOffset = << >>
    /\ compactionLock = [id \in Shards |-> FALSE]

\* HybridStore.Put(key, val).
Put(key, val) ==
    /\ phase = "running"
    /\ ops < MaxOps
    /\ getShard(key) \in Shards          \* an index outside hs.shards panics
    /\ writeCount' = writeCount + 1
    /\ IF Len(writeCh) < WalBufferSize
       THEN writeCh' = Append(writeCh, Rec(key, val)) /\ UNCHANGED helpers
       ELSE helpers' = helpers (+) SetToBag({Rec(key, val)}) /\ UNCHANGED writeCh
    /\ \E r \in {PutLocked(shards[getShard(key)], key, val, clock)} :
          /\ shards' = [shards EXCEPT ![getShard(key)] = r.shard]
          /\ sstFiles' = sstFiles \cup r.created
          /\ clock' = IF r.created = {} THEN clock ELSE clock + 1
          /\ spawned' = [spawned EXCEPT ![getShard(key)] = IF r.spawn THEN @ + 1 ELSE @]
    /\ latest' = [latest EXCEPT ![key] = val]
    /\ ops' = ops + 1
    /\ before' = [id \in Shards |-> NoBefore]
    /\ UNCHANGED unitVars
    /\ UNCHANGED <<liFiles, wal, walBuffer, phase, comp, atClose, replayed, loaded,
                   restarted>>

\* HybridStore.Delete(key): Put(key, []byte{}).
Delete(key) == Put(key, Tombstone)

\* The goroutine `go func() { hs.writeCh <- rec }()` gets its record in.
HelperSend ==
    /\ phase = "running"
    /\ Len(writeCh) < WalBufferSize
    /\ \E rec \in BagToSet(helpers) :
          /\ writeCh' = Append(writeCh, rec)
          /\ helpers' = helpers (-) SetToBag({rec})
    /\ UNCHANGED unitVars
    /\ UNCHANGED <<shards, sstFiles, liFiles, wal, walBuffer, phase, spawned,
                   comp, clock, writeCount, latest, atClose, replayed, loaded, restarted, before, ops>>

\* backgroundPersist, `case rec := <-hs.writeCh`.
WalReceive ==
    /\ phase = "running"
    /\ writeCh # <<>>
    /\ IF Len(walBuffer) + 1 >= WalBatchSize
       THEN /\ wal' = BatchWrite(wal, Append(walBuffer, Head(writeCh)))
            /\ walBuffer' = <<>>
       ELSE /\ walBuffer' = Append(walBuffer, Head(writeCh))
            /\ UNCHANGED wal
    /\ writeCh' = Tail(writeCh)
    /\ UNCHANGED unitVars
    /\ UNCHANGED <<shards, sstFiles, liFiles, helpers, phase, spawned, comp,
                   clock, writeCount, latest, atClose, replayed, loaded, restarted, before, ops>>

\* backgroundPersist, `case <-ticker.C`.
WalTick ==
    /\ phase = "running"
    /\ walBuffer # <<>>
    /\ wal' = BatchWrite(wal, walBuffer)
    /\ walBuffer' = <<>>
    /\ UNCHANGED unitVars
    /\ UNCHANGED <<shards, sstFiles, liFiles, writeCh, helpers, phase, spawned,
                   comp, clock, writeCount, latest, atClose, replayed, loaded, restarted, before, ops>>

\* compactShard from TryLock to sstable.Open(outPath): a goroutine started
\* by adaptiveFlush runs.  It returns at once when another compaction of the
\* shard holds compactionLock or when L0 is below the threshold.
CompactStart(id) ==
    /\ phase = "running"
    /\ spawned[id] > 0
    /\ spawned' = [spawned EXCEPT ![id] = @ - 1]
    /\ IF comp[id].pc # "idle" \/ Len(shards[id].l0SSTables) < CompactionThreshold
       THEN UNCHANGED <<comp, sstFiles, clock, before>>
       ELSE \E newSST \in {SSTFile(id, 1, clock, "compacted",
                                   CompactMerge(shards[id].l0SSTables, sstFiles))} :
               /\ comp' = [comp EXCEPT ![id] =
                             [pc |-> "merged", inputTables |-> shards[id].l0SSTables,
                              newSST |-> <<newSST>>, rebuilt |-> <<>>]]
               /\ sstFiles' = sstFiles \cup {newSST}
               /\ clock' = clock + 1
               /\ before' = [before EXCEPT ![id] = Observed]
    /\ UNCHANGED unitVars
    /\ UNCHANGED <<shards, liFiles, wal, writeCh, helpers, walBuffer, phase,
                   writeCount, latest, atClose, replayed, loaded, restarted, ops>>

\* An install that empties the L0 list whatever was flushed meanwhile.
InstallCompactedDroppingFlushed(sh, compactedCount, newSST) ==
    rebuildSSTableViewLocked([sh EXCEPT !.l1SSTables = Append(@, newSST),
                                        !.l0SSTables = <<>>])

\* compactShard, the section under shard.mutex that installs newSST.
InstallCompacted(sh, compactedCount, newSST) ==
    LET newlyFlushed == IF Len(sh.l0SSTables) > compactedCount
                        THEN SubSeq(sh.l0SSTables, compactedCount + 1, Len(sh.l0SSTables))
                        ELSE <<>>
    IN  rebuildSSTableViewLocked([sh EXCEPT !.l1SSTables = Append(@, newSST),
                                            !.l0SSTables = newlyFlushed])

CompactInstall(id) ==
    /\ phase = "running"
    /\ comp[id].pc = "merged"
    /\ shards' = [shards EXCEPT ![id] =
                    InstallCompacted(@, Len(comp[id].inputTables), comp[id].newSST[1])]
    /\ comp' = [comp EXCEPT ![id].pc = "installed"]
    /\ UNCHANGED unitVars
    /\ UNCHANGED <<sstFiles, liFiles, wal, writeCh, helpers, walBuffer, phase,
                   spawned, clock, writeCount, latest, atClose, replayed, loaded, restarted, before, ops>>

\* rebuildLearnedIndexFromSSTables up to the assignment of
\* shard.learnedIndexes.
CompactRebuild(id) ==
    /\ phase = "running"
    /\ comp[id].pc = "installed"
    /\ \E rebuilt \in {RebuiltIndexes(shards[id].sstables, sstFiles)} :
          /\ shards' = [shards EXCEPT ![id].learnedIndexes = rebuilt]
          /\ comp' = [comp EXCEPT ![id].pc = IF rebuilt = <<>> THEN "persisted" ELSE "rebuilt",
                                  ![id].rebuilt = rebuilt]
    /\ UNCHANGED unitVars
    /\ UNCHANGED <<sstFiles, liFiles, wal, writeCh, helpers, walBuffer, phase,
                   spawned, clock, writeCount, latest, atClose, replayed, loaded, restarted, before, ops>>

\* The call of persistLearnedIndex that ends rebuildLearnedIndexFromSSTables.
CompactPersist(id) ==
    /\ phase = "running"
    /\ comp[id].pc = "rebuilt"
    /\ liFiles' = persistLearnedIndex(shards[id], comp[id].rebuilt[1], sstFiles, liFiles)
    /\ comp' = [comp EXCEPT ![id].pc = "persisted"]
    /\ UNCHANGED unitVars
    /\ UNCHANGED <<shards, sstFiles, wal, writeCh, helpers, walBuffer, phase,
                   spawned, clock, writeCount, latest, atClose, replayed, loaded, restarted, before, ops>>

\* compactShard, the removal of the input files; compactionLock is released.
CompactCleanup(id) ==
    /\ phase = "running"
    /\ comp[id].pc = "persisted"
    /\ sstFiles' = sstFiles \ {comp[id].inputTables[i] : i \in 1..Len(comp[id].inputTables)}
    /\ comp' = [comp EXCEPT ![id] = NoCompaction]
    /\ UNCHANGED unitVars
    /\ UNCHANGED <<shards, liFiles, wal, writeCh, helpers, walBuffer, phase,
                   spawned, clock, writeCount, latest, atClose, replayed, loaded, restarted, before, ops>>

\* The records of helper goroutines that reach the channel while Close
\* drains it: a helper blocked in its send is served by the drain's next
\* receive, one that has not yet run is not.  Any of them, in any order.
RECURSIVE HelperArrivals(_)
HelperArrivals(B) ==
    {<<>>} \cup UNION {{<<rec>> \o rest : rest \in HelperArrivals(B (-) SetToBag({rec}))} :
                       rec \in BagToSet(B)}

\* HybridStore.Close, after which the process ends: backgroundPersist drains
\* the channel and writes its buffer, the tables are closed, and what the
\* process held in memory is gone, goroutines still running (a compaction, a
\* helper that has not sent) included.  What stays is the data directory.
Close ==
    /\ phase = "running"
    /\ \E arrived \in HelperArrivals(helpers) :
          wal' = BatchWrite(wal, walBuffer \o writeCh \o arrived)
    /\ writeCh' = <<>>
    /\ walBuffer' = <<>>
    /\ phase' = "closed"
    /\ atClose' = latest
    /\ shards' = [id \in Shards |-> NewShard(id)]
    /\ helpers' = EmptyBag
    /\ spawned' = [id \in Shards |-> 0]
    /\ comp' = [id \in Shards |-> NoCompaction]
    /\ writeCount' = 0
    /\ before' = [id \in Shards |-> NoBefore]
    /\ UNCHANGED unitVars
    /\ UNCHANGED <<sstFiles, liFiles, clock, latest, replayed, loaded, restarted, ops>>

\* sort.Slice of restoreSSTables within one shard and level: by timestamp.
RECURSIVE SortByTs(_)
SortByTs(S) ==
    IF S = {} THEN <<>>
    ELSE LET t == CHOOSE x \in S : \A y \in S : x.ts <= y.ts
         IN  <<t>> \o SortByTs(S \ {t})

KeysOf(recs) == {recs[i].key : i \in 1..Len(recs)}

\* restoreSSTables for shard id: the tables of the directory by level and
\* timestamp, every key their iterators yield added to the Bloom filter.
restoreSSTables(id, files) ==
    LET mine == {f \in files : f.shard = id}
    IN  rebuildSSTableViewLocked(
          [NewShard(id) EXCEPT
             !.l0SSTables = SortByTs({f \in mine : f.level = 0}),
             !.l1SSTables = SortByTs({f \in mine : f.level = 1}),
             !.bloom = UNION {KeysOf(IterRecords(f, files)) : f \in mine}])

\* restoreLearnedIndexes for one shard: the shard, the *.li files, and what
\* was loaded next to what a rebuild yields.
restoreLearnedIndexes(sh, files, lis) ==
    LET sig == learnedIndexSignature(sh, files)
        hits == {f \in lis : f.shard = sh.id /\ f.sig = sig}
        rebuilt == RebuiltIndexes(sh.sstables, files)
    IN  IF Len(sh.sstables) = 0
        THEN [shard |-> sh, lis |-> lis, loaded |-> NoLoad]
        ELSE IF sig # <<>> /\ hits # {}
        THEN LET li == Load((CHOOSE f \in hits : TRUE).content)
             IN  [shard |-> [sh EXCEPT !.learnedIndexes = <<li>>],
                  lis |-> lis,
                  loaded |-> [hit |-> TRUE, li |-> <<li>>, fresh |-> rebuilt]]
        ELSE [shard |-> [sh EXCEPT !.learnedIndexes = rebuilt],
              lis |-> IF rebuilt = <<>> THEN lis
                      ELSE persistLearnedIndex(sh, rebuilt[1], files, lis),
              loaded |-> NoLoad]

\* shardData[idx] of recoverFromWAL.
RECURSIVE ShardData(_, _)
ShardData(records, idx) ==
    IF records = <<>> THEN <<>>
    ELSE (IF getShard(Head(records).key) = idx THEN <<Head(records)>> ELSE <<>>)
           \o ShardData(Tail(records), idx)

\* The indexes learned.Build may return for a shard's WAL records.
WalIndexes(data) == IF data = <<>> THEN {<<>>} ELSE {<<li>> : li \in Build(data)}

RECURSIVE AllRecords(_)
AllRecords(lis) ==
    IF lis = <<>> THEN <<>> ELSE Head(lis).Records \o AllRecords(Tail(lis))

\* checkpointAndTruncateWAL for one shard at time now: the shard, the
\* checkpoint table created and the *.li files afterwards.
checkpointShard(sh, files, lis, now) ==
    LET latestByKey == ApplyRecords(
                          ApplyRecords(<< >>, AllRecords(sh.learnedIndexes)),
                          MemScan(sh.mutableMem, MinKey, MaxKey))
        records == MapRecords(latestByKey)
        newSST == SSTFile(sh.id, 1, now, "checkpoint", records)
        li == BuildSorted(records)
        sh1 == [rebuildSSTableViewLocked([sh EXCEPT !.l1SSTables = Append(@, newSST)])
                  EXCEPT !.learnedIndexes = <<li>>]
    IN  IF DOMAIN latestByKey = {}
        THEN [shard |-> sh, created |-> {}, lis |-> lis]
        ELSE [shard |-> sh1, created |-> {newSST},
              lis |-> persistLearnedIndex(sh1, li, files \cup {newSST}, lis)]

\* NewHybridStore for one shard: restoreSSTables, restoreLearnedIndexes,
\* recoverFromWAL with walIndex the index Build returned for the shard's WAL
\* records, and the checkpoint when records were recovered.
startShard(id, files, lis, records, walIndex, now) ==
    LET r1 == restoreLearnedIndexes(restoreSSTables(id, files), files, lis)
        data == ShardData(records, id)
        sh2 == [r1.shard EXCEPT !.bloom = @ \cup KeysOf(data),
                                !.learnedIndexes = @ \o walIndex]
        r3 == IF Len(records) > 0
              THEN checkpointShard(sh2, files, r1.lis, now)
              ELSE [shard |-> sh2, created |-> {}, lis |-> r1.lis]
    IN  [shard |-> r3.shard, created |-> r3.created,
         lis |-> {f \in r3.lis : f.shard = id}, loaded |-> r1.loaded]

\* The per-shard choices of recoverFromWAL: one index per shard with WAL
\* records, among those Build may return.
WalIndexChoices(records) ==
    LET choices == UNION {WalIndexes(ShardData(records, id)) : id \in Shards}
    IN  {f \in [Shards -> choices] :
           \A id \in Shards : f[id] \in WalIndexes(ShardData(records, id))}

RECURSIVE StartShards(_, _, _, _, _, _)
StartShards(ids, files, lis, records, walIndex, now) ==
    IF ids = {} THEN << >>
    ELSE LET id == CHOOSE x \in ids : TRUE
         IN  (id :> startShard(id, files, lis, records, walIndex[id], now + id))
               @@ StartShards(ids \ {id}, files, lis, records, walIndex, now)

\* NewHybridStore on a data directory with the tables files, the indexes lis
\* and the WAL w, at time now: the outcomes it may have.
NewHybridStore(files, lis, w, now) ==
    LET records == LoadAll(w)
    IN  {LET r == StartShards(Shards, files, lis, records, walIndex, now)
             created == UNION {r[id].created : id \in Shards}
         IN  [shards |-> [id \in Shards |-> r[id].shard],
              sstFiles |-> files \cup created,
              liFiles |-> {f \in lis : f.shard \notin Shards}
                            \cup UNION {r[id].lis : id \in Shards},
              wal |-> IF created # {} THEN WalTruncate(w) ELSE w,
              clock |-> IF created # {} THEN now + ShardCount ELSE now,
              replayed |-> [wal |-> records, tables |-> created],
              loaded |-> [id \in Shards |-> r[id].loaded]]
         : walIndex \in WalIndexChoices(records)}

\* A new process calls NewHybridStore on the data directory.
Restart ==
    /\ phase = "closed"
    /\ \E n \in NewHybridStore(sstFiles, liFiles, wal, clock) :
          /\ shards' = n.shards
          /\ sstFiles' = n.sstFiles
          /\ liFiles' = n.liFiles
          /\ wal' = n.wal
          /\ clock' = n.clock
          /\ replayed' = n.replayed
          /\ loaded' = n.loaded
    /\ phase' = "running"
    /\ restarted' = TRUE
    /\ UNCHANGED unitVars
    /\ UNCHANGED <<writeCh, helpers, walBuffer, spawned, comp, writeCount, before,
                   latest, atClose, ops>>

\* The records of a sequence as a bag.
RECURSIVE BagOfSeq(_)
BagOfSeq(s) ==
    IF s = <<>> THEN EmptyBag ELSE SetToBag({Head(s)}) (+) BagOfSeq(Tail(s))

\* A Reset that forgets to empty shard.learnedIndexes.
ResetShardKeepingIndexes(sh) ==
    [NewShard(sh.id) EXCEPT !.learnedIndexes = sh.learnedIndexes]

\* The loop of Reset over hs.shards: what it leaves of one shard.
ResetShard(sh) == NewShard(sh.id)

\* HybridStore.Reset: the WAL truncated, the *.sst and *.li files removed,
\* every shard reset, the statistics renewed and the channel drained.  The
\* drain also receives the records of helper goroutines blocked in their
\* send; a helper that has not yet run keeps its record.  The buffer of
\* backgroundPersist and a compactShard call under way are not touched.
Reset ==
    /\ phase = "running"
    /\ wal' = WalTruncate(wal)
    /\ sstFiles' = {}
    /\ liFiles' = {}
    /\ shards' = [id \in Shards |-> ResetShard(shards[id])]
    /\ writeCount' = 0
    /\ writeCh' = <<>>
    /\ \E arrived \in HelperArrivals(helpers) :
          helpers' = helpers (-) BagOfSeq(arrived)
    /\ latest' = [k \in Keys |-> Never]
    /\ before' = [id \in Shards |-> NoBefore]
    /\ UNCHANGED unitVars
    /\ UNCHANGED <<walBuffer, phase, spawned, comp, clock, atClose, replayed, loaded,
                   restarted, ops>>

Next ==
    \/ \E key \in Keys : Put(key, ValueOf(ops))
    \/ \E key \in Keys : Delete(key)
    \/ HelperSend
    \/ WalReceive
    \/ WalTick
    \/ \E id \in Shards : CompactStart(id)
    \/ \E id \in Shards : CompactInstall(id)
    \/ \E id \in Shards : CompactRebuild(id)
    \/ \E id \in Shards : CompactPersist(id)
    \/ \E id \in Shards : CompactCleanup(id)
    \/ Close
    \/ Restart

Spec == Init /\ [][Next]_vars

\* ------------------------------------------------------------------------
\* The merge of compactShard on its own: a shard after two flushes of keys
\* that share a MemTable sub-map, so that both L0 tables are ascending, and
\* whose tables the iterator reads to their last entry and no further.
\* ------------------------------------------------------------------------

MergeKeys == {KeyOf(-80), KeyOf(-64), KeyOf(-48), KeyOf(-32), KeyOf(-16)}

\* The shard and its files after Put(k1), Put(k2), Put(k3), Put(k4).
AfterFourPuts(k1, k2, k3, k4) ==
    LET r1 == PutLocked(NewShard(0), k1, ValueOf(0), 1)
        r2 == PutLocked(r1.shard, k2, ValueOf(1), 1)
        r3 == PutLocked(r2.shard, k3, ValueOf(2), 2)
        r4 == PutLocked(r3.shard, k4, ValueOf(3), 2)
    IN  [shard |-> r4.shard,
         created |-> r2.created \cup r4.created,
         records |-> <<Rec(k1, ValueOf(0)), Rec(k2, ValueOf(1)),
                       Rec(k3, ValueOf(2)), Rec(k4, ValueOf(3))>>]

InitMerge ==
    \E k1, k2, k3, k4 \in MergeKeys :
       /\ k1 # k2
       /\ k3 # k4
       /\ \E r \in {AfterFourPuts(k1, k2, k3, k4)} :
             /\ shards = [id \in Shards |-> r.shard]
             /\ sstFiles = r.created
             /\ wal = BatchWrite(<<>>, r.records)
       /\ liFiles = {}
       /\ writeCh = <<>>
       /\ helpers = EmptyBag
       /\ walBuffer = <<>>
       /\ phase = "running"
       /\ spawned = [id \in Shards |-> 2]
       /\ comp = [id \in Shards |-> NoCompaction]
       /\ clock = 3
       /\ writeCount = 4
       /\ latest = [k \in Keys |-> Never]
       /\ atClose = [k \in Keys |-> Never]
       /\ replayed = [wal |-> <<>>, tables |-> {}]
       /\ loaded = [id \in Shards |-> NoLoad]
       /\ restarted = FALSE
       /\ before = [id \in Shards |-> NoBefore]
       /\ ops = 4
       /\ built = NoIndex
       /\ appended = <<>>
       /\ truncated = NeverTruncated
       /\ pc = [c \in Callers |-> Idle]
       /\ mutex = [id \in Shards |-> Unlocked]
       /\ closedTables = {}
       /\ fileOffset = << >>
       /\ compactionLock = [id \in Shards |-> FALSE]

NextMerge == \E id \in Shards : CompactStart(id)

SpecMerge == InitMerge /\ [][NextMerge]_vars

\* ------------------------------------------------------------------------
\* A store with a history: two keys were written, the flush of the two
\* records and the compaction that followed have run to their end, and the
\* WAL writer has written both records.
\* ------------------------------------------------------------------------

\* The shard, the files and the records after Put(k1), Put(k2), the flush
\* and one whole compactShard.
AfterCompaction(k1, k2) ==
    LET r1 == PutLocked(NewShard(0), k1, ValueOf(MaxOps), 1)
        r2 == PutLocked(r1.shard, k2, ValueOf(MaxOps + 1), 1)
        newSST == SSTFile(0, 1, 2, "compacted",
                          CompactMerge(r2.shard.l0SSTables, r2.created))
        installed == InstallCompacted(r2.shard, Len(r2.shard.l0SSTables), newSST)
        rebuilt == RebuiltIndexes(installed.sstables, r2.created \cup {newSST})
        sh == [installed EXCEPT !.learnedIndexes = rebuilt]
    IN  [shard |-> sh,
         files |-> {newSST},
         lis |-> IF rebuilt = <<>> THEN {}
                 ELSE persistLearnedIndex(sh, rebuilt[1], r2.created \cup {newSST}, {}),
         records |-> <<Rec(k1, ValueOf(MaxOps)), Rec(k2, ValueOf(MaxOps + 1))>>]

InitWarm ==
    \E k1, k2 \in Keys :
       /\ k1 # k2
       /\ \E r \in {AfterCompaction(k1, k2)} :
             /\ shards = [id \in Shards |-> r.shard]
             /\ sstFiles = r.files
             /\ liFiles = r.lis
             /\ wal = BatchWrite(<<>>, r.records)
             /\ latest = [k \in Keys |-> IF k = k2 THEN r.records[2].val
                                          ELSE IF k = k1 THEN r.records[1].val
                                          ELSE Never]
       /\ writeCh = <<>>
       /\ helpers = EmptyBag
       /\ walBuffer = <<>>
       /\ phase = "running"
       /\ spawned = [id \in Shards |-> 0]
       /\ comp = [id \in Shards |-> NoCompaction]
       /\ clock = 3
       /\ writeCount = 2
       /\ atClose = [k \in Keys |-> Never]
       /\ replayed = [wal |-> <<>>, tables |-> {}]
       /\ loaded = [id \in Shards |-> NoLoad]
       /\ restarted = FALSE
       /\ before = [id \in Shards |-> NoBefore]
       /\ ops = 0
       /\ built = NoIndex
       /\ appended = <<>>
       /\ truncated = NeverTruncated
       /\ pc = [c \in Callers |-> Idle]
       /\ mutex = [id \in Shards |-> Unlocked]
       /\ closedTables = {}
       /\ fileOffset = << >>
       /\ compactionLock = [id \in Shards |-> FALSE]

\* The store until it is closed.
NextWarm ==
    \/ \E key \in Keys : Put(key, ValueOf(ops))
    \/ \E key \in Keys : Delete(key)
    \/ HelperSend
    \/ WalReceive
    \/ WalTick
    \/ \E id \in Shards : CompactStart(id)
    \/ \E id \in Shards : CompactInstall(id)
    \/ \E id \in Shards : CompactRebuild(id)
    \/ \E id \in Shards : CompactPersist(id)
    \/ \E id \in Shards : CompactCleanup(id)

SpecWarm == InitWarm /\ [][NextWarm]_vars

\* ------------------------------------------------------------------------
\* The store with Reset among its calls, until it is closed.
\* ------------------------------------------------------------------------

NextReset ==
    \/ \E key \in Keys : Put(key, ValueOf(ops))
    \/ \E key \in Keys : Delete(key)
    \/ HelperSend
    \/ WalReceive
    \/ WalTick
    \/ \E id \in Shards : CompactStart(id)
    \/ \E id \in Shards : CompactInstall(id)
    \/ \E id \in Shards : CompactRebuild(id)
    \/ \E id \in Shards : CompactPersist(id)
    \/ \E id \in Shards : CompactCleanup(id)
    \/ Reset

SpecReset == Init /\ [][NextReset]_vars

\* ------------------------------------------------------------------------
\* Put, Delete and Get seen step by step: the select on hs.writeCh, the wait
\* for shard.mutex, the body under the lock and the deferred unlock, with
\* the goroutines of the store running in between.
\* ------------------------------------------------------------------------

\* A plain send `hs.writeCh <- rec`, which waits for room in the channel.
BlockingSendReady(ch) == Len(ch) < WalBufferSize

\* The select of Put has a default case: it never waits.
SelectReady(ch) == TRUE

\* A write lock that is given whoever holds the mutex.
CanLockAlways(mu) == TRUE

\* sync.RWMutex: Lock returns when no writer and no reader holds the mutex;
\* RLock returns when no writer holds it and none is waiting in Lock.
CanLock(mu) == mu.writer = "" /\ mu.readers = {}
WriterWaits(id) == \E c \in Writers : pc[c].at = "lock" /\ getShard(pc[c].key) = id
CanRLock(id) == mutex[id].writer = "" /\ ~ WriterWaits(id)

\* Put(key, val) or Delete(key) is called: hs.stats.RecordWrite().
PutEnter(c, key, val) ==
    /\ phase = "running"
    /\ ops < MaxOps
    /\ pc[c] = Idle
    /\ getShard(key) \in Shards
    /\ writeCount' = writeCount + 1
    /\ ops' = ops + 1
    /\ pc' = [pc EXCEPT ![c] = [at |-> "select", key |-> key, val |-> val]]
    /\ UNCHANGED <<shards, sstFiles, liFiles, wal, writeCh, helpers, walBuffer, phase,
                   spawned, comp, clock, latest, atClose, replayed, loaded, restarted,
                   before, built, appended, truncated, mutex, closedTables, fileOffset, compactionLock>>

\* The select: the record goes into the channel, or to a new goroutine
\* when the channel is full.
PutSelect(c) ==
    /\ pc[c].at = "select"
    /\ SelectReady(writeCh)
    /\ IF Len(writeCh) < WalBufferSize
       THEN writeCh' = Append(writeCh, Rec(pc[c].key, pc[c].val)) /\ UNCHANGED helpers
       ELSE helpers' = helpers (+) SetToBag({Rec(pc[c].key, pc[c].val)}) /\ UNCHANGED writeCh
    /\ pc' = [pc EXCEPT ![c].at = "lock"]
    /\ UNCHANGED <<shards, sstFiles, liFiles, wal, walBuffer, phase, spawned, comp, clock,
                   writeCount, latest, atClose, replayed, loaded, restarted, before, ops,
                   built, appended, truncated, mutex, closedTables, fileOffset, compactionLock>>

\* shard.mutex.Lock() returns.
PutLock(c) ==
    /\ pc[c].at = "lock"
    /\ CanLock(mutex[getShard(pc[c].key)])
    /\ mutex' = [mutex EXCEPT ![getShard(pc[c].key)].writer = c]
    /\ pc' = [pc EXCEPT ![c].at = "locked"]
    /\ UNCHANGED storeVars
    /\ UNCHANGED <<built, appended, truncated, closedTables, fileOffset, compactionLock>>

\* The body of Put under the lock, and the deferred Unlock at its return.
PutRun(c) ==
    /\ pc[c].at = "locked"
    /\ \E r \in {PutLocked(shards[getShard(pc[c].key)], pc[c].key, pc[c].val, clock)} :
          /\ shards' = [shards EXCEPT ![getShard(pc[c].key)] = r.shard]
          /\ sstFiles' = sstFiles \cup r.created
          /\ clock' = IF r.created = {} THEN clock ELSE clock + 1
          /\ spawned' = [spawned EXCEPT ![getShard(pc[c].key)] = IF r.spawn THEN @ + 1 ELSE @]
    /\ latest' = [latest EXCEPT ![pc[c].key] = pc[c].val]
    /\ before' = [id \in Shards |-> NoBefore]
    /\ mutex' = [mutex EXCEPT ![getShard(pc[c].key)].writer = ""]
    /\ pc' = [pc EXCEPT ![c] = Idle]
    /\ UNCHANGED <<liFiles, wal, writeCh, helpers, walBuffer, phase, comp, writeCount,
                   atClose, replayed, loaded, restarted, ops, built, appended, truncated, closedTables, fileOffset, compactionLock>>

\* Get(key) is called.
GetEnter(c, key) ==
    /\ phase = "running"
    /\ pc[c] = Idle
    /\ getShard(key) \in Shards
    /\ pc' = [pc EXCEPT ![c] = [at |-> "rlock", key |-> key, val |-> <<>>]]
    /\ UNCHANGED storeVars
    /\ UNCHANGED <<built, appended, truncated, mutex, closedTables, fileOffset, compactionLock>>

\* shard.mutex.RLock() returns.
GetRLock(c) ==
    /\ pc[c].at = "rlock"
    /\ CanRLock(getShard(pc[c].key))
    /\ mutex' = [mutex EXCEPT ![getShard(pc[c].key)].readers = @ \cup {c}]
    /\ pc' = [pc EXCEPT ![c].at = "rlocked"]
    /\ UNCHANGED storeVars
    /\ UNCHANGED <<built, appended, truncated, closedTables, fileOffset, compactionLock>>

\* The body of Get, which changes nothing, and the deferred RUnlock.
GetRun(c) ==
    /\ pc[c].at = "rlocked"
    /\ mutex' = [mutex EXCEPT ![getShard(pc[c].key)].readers = @ \ {c}]
    /\ pc' = [pc EXCEPT ![c] = Idle]
    /\ UNCHANGED storeVars
    /\ UNCHANGED <<built, appended, truncated, closedTables, fileOffset, compactionLock>>

\* The keys of the calls seen step by step.
LiveKeys == {KeyOf(0), KeyOf(16)}

\* The steps of the callers and of the goroutines.  A step of compactShard
\* takes shard.mutex for a section without a wait in it: it runs when the
\* mutex can be taken, for reading (the snapshot, the signature) or for
\* writing (the installation, the rebuild).
NextLive ==
    \/ \E c \in Writers, key \in LiveKeys : PutEnter(c, key, ValueOf(ops))
    \/ \E c \in Writers : PutEnter(c, KeyOf(0), Tombstone)
    \/ \E c \in Writers : PutSelect(c)
    \/ \E c \in Writers : PutLock(c)
    \/ \E c \in Writers : PutRun(c)
    \/ \E c \in LiveReaders : GetEnter(c, KeyOf(0))
    \/ \E c \in LiveReaders : GetRLock(c)
    \/ \E c \in LiveReaders : GetRun(c)
    \/ HelperSend
    \/ WalReceive
    \/ WalTick
    \/ \E id \in Shards : CanRLock(id) /\ CompactStart(id)
    \/ \E id \in Shards : CanLock(mutex[id]) /\ CompactInstall(id)
    \/ \E id \in Shards : CanLock(mutex[id]) /\ CompactRebuild(id)
    \/ \E id \in Shards : CanRLock(id) /\ CompactPersist(id)
    \/ \E id \in Shards : CompactCleanup(id)

\* Fair scheduling.  A goroutine that can take a step takes it; a Lock that
\* can return again and again returns (sync.Mutex hands the lock to a waiter
\* that has waited long).  Nothing is asked of the callers that are outside
\* a call, of the WAL writer, which may stall, or of the compactions.
\* Weak fairness of PutRun(c) is written out: the step is enabled exactly
\* when c is under the lock, the body having nothing to wait for.
FairPutRun(c) == []<>(pc[c].at # "locked") \/ []<><<PutRun(c)>>_vars

FairLive ==
    /\ \A c \in Writers :
          WF_vars(PutSelect(c)) /\ SF_vars(PutLock(c)) /\ FairPutRun(c)
    /\ \A c \in LiveReaders : WF_vars(GetRun(c))

SpecLive == Init /\ [][NextLive]_vars /\ FairLive

\* ------------------------------------------------------------------------
\* The engine object after Close has returned, in a process that goes on:
\* Close stops backgroundPersist and closes the files of the tables, and
\* leaves the shards as they are.
\* ------------------------------------------------------------------------

\* The tables of every shard's view.
ViewTables(shs) ==
    UNION {{shs[id].sstables[i] : i \in 1..Len(shs[id].sstables)} : id \in Shards}

\* HybridStore.Close: backgroundPersist drains the channel, writes its
\* buffer and returns; the backend and the tables are closed.  A goroutine
\* of Put that has not sent yet keeps its record.
CloseReturn ==
    /\ phase = "running"
    /\ \E arrived \in HelperArrivals(helpers) :
          /\ wal' = BatchWrite(wal, walBuffer \o writeCh \o arrived)
          /\ helpers' = helpers (-) BagOfSeq(arrived)
    /\ writeCh' = <<>>
    /\ walBuffer' = <<>>
    /\ phase' = "closed"
    /\ atClose' = latest
    /\ closedTables' = ViewTables(shards)
    /\ UNCHANGED <<shards, sstFiles, liFiles, spawned, comp, clock, writeCount, latest,
                   replayed, loaded, restarted, before, ops>>
    /\ UNCHANGED <<built, appended, truncated, pc, mutex, fileOffset, compactionLock>>

\* HybridStore.Put(key, val) on the engine after Close: the same code, with
\* nobody receiving from the channel.
ClosedPut(key, val) ==
    /\ phase = "closed"
    /\ ops < MaxOps
    /\ getShard(key) \in Shards
    /\ writeCount' = writeCount + 1
    /\ IF Len(writeCh) < WalBufferSize
       THEN writeCh' = Append(writeCh, Rec(key, val)) /\ UNCHANGED helpers
       ELSE helpers' = helpers (+) SetToBag({Rec(key, val)}) /\ UNCHANGED writeCh
    /\ \E r \in {PutLocked(shards[getShard(key)], key, val, clock)} :
          /\ shards' = [shards EXCEPT ![getShard(key)] = r.shard]
          /\ sstFiles' = sstFiles \cup r.created
          /\ clock' = IF r.created = {} THEN clock ELSE clock + 1
          /\ spawned' = [spawned EXCEPT ![getShard(key)] = IF r.spawn THEN @ + 1 ELSE @]
    /\ latest' = [latest EXCEPT ![key] = val]
    /\ ops' = ops + 1
    /\ before' = [id \in Shards |-> NoBefore]
    /\ UNCHANGED unitVars
    /\ UNCHANGED <<liFiles, wal, walBuffer, phase, comp, atClose, replayed, loaded,
                   restarted>>

\* HybridStore.Get(key) on the engine after Close: SSTable.Get on a table
\* whose file is closed fails in Seek and reports the key absent.
ClosedGet(key) ==
    LET sh == shards[getShard(key)]
    IN  ShardGet([sh EXCEPT !.sstables = SelectSeq(@, LAMBDA t : t \notin closedTables)], key)

NextClosed ==
    \/ \E key \in Keys : Put(key, ValueOf(ops))
    \/ \E key \in Keys : Delete(key)
    \/ HelperSend
    \/ WalReceive
    \/ WalTick
    \/ \E id \in Shards : CompactStart(id)
    \/ \E id \in Shards : CompactInstall(id)
    \/ \E id \in Shards : CompactRebuild(id)
    \/ \E id \in Shards : CompactPersist(id)
    \/ \E id \in Shards : CompactCleanup(id)
    \/ CloseReturn
    \/ \E key \in Keys : ClosedPut(key, ValueOf(ops))
    \/ \E key \in Keys : ClosedPut(key, Tombstone)

SpecClosed == Init /\ [][NextClosed]_vars

\* ------------------------------------------------------------------------
\* Package storage on its own: a WAL that is appended to and truncated, and
\* iterated from its start.
\* ------------------------------------------------------------------------

\* Entries appended between two truncations, and the keys, values and
\* times of the entries.
MaxAppends == 3
WalKeys == {KeyOf(0), KeyOf(-1), MinKey, MaxKey}
WalValues == {<<>>, <<97>>, <<0, 255>>}
WalTimes == {NoTime, MaxKey}

\* WAL.Append(key, value) at time ts.
WalAppend(key, value, ts) ==
    /\ Len(appended) < MaxAppends
    /\ wal' = wal \o WalFrame(Rec(key, value), ts)
    /\ appended' = Append(appended, Rec(key, value))
    /\ UNCHANGED <<shards, sstFiles, liFiles, writeCh, helpers, walBuffer, phase,
                   spawned, comp, clock, writeCount, latest, atClose, replayed, loaded,
                   restarted, before, ops>>
    /\ UNCHANGED <<built, truncated, pc, mutex, closedTables, fileOffset, compactionLock>>

\* WAL.Truncate().
WalTruncateCall ==
    /\ wal' = WalTruncate(wal)
    /\ truncated' = Len(appended)
    /\ appended' = <<>>
    /\ UNCHANGED <<shards, sstFiles, liFiles, writeCh, helpers, walBuffer, phase,
                   spawned, comp, clock, writeCount, latest, atClose, replayed, loaded,
                   restarted, before, ops>>
    /\ UNCHANGED <<built, pc, mutex, closedTables, fileOffset, compactionLock>>

NextWal ==
    \/ \E key \in WalKeys, value \in WalValues, ts \in WalTimes : WalAppend(key, value, ts)
    \/ WalTruncateCall

SpecWal == Init /\ [][NextWal]_vars

\* ------------------------------------------------------------------------
\* A damaged WAL file: the last entry written in part, or the stored CRC of
\* an entry changed on disk.  The caller w1 records which entry was damaged.
\* ------------------------------------------------------------------------

\* The offset in the file w of the entry after the first i entries of recs.
RECURSIVE WalEntryOffset(_, _)
WalEntryOffset(recs, i) ==
    IF i = 0 THEN 0
    ELSE WalEntryOffset(recs, i - 1) + HeaderSize + Len(recs[i].val)

\* The lengths a partly written entry with a value of valLen bytes may have:
\* one byte, the header short of a byte, the whole header without the whole
\* value, the entry short of a byte.
TornLengths(valLen) ==
    {n \in {1, HeaderSize - 1, HeaderSize, HeaderSize + valLen - 1} :
       n < HeaderSize + valLen}

\* The bytes of the stored CRC that the damage changes.
CrcBytes == {1, 4}

Damaged(i, kind) == [at |-> "damaged", entry |-> i, kind |-> kind]

\* The append of an entry to a file that has no damage.
AppendEntry(key, value, ts) ==
    /\ pc["w1"] = Idle
    /\ WalAppend(key, value, ts)

\* The process stops while it writes the last entry: the file ends after n
\* bytes of it.
TearLast ==
    /\ pc["w1"] = Idle
    /\ appended # <<>>
    /\ \E n \in TornLengths(Len(appended[Len(appended)].val)) :
          wal' = SubSeq(wal, 1, WalEntryOffset(appended, Len(appended) - 1) + n)
    /\ pc' = [pc EXCEPT !["w1"] = Damaged(Len(appended), "torn")]
    /\ UNCHANGED <<shards, sstFiles, liFiles, writeCh, helpers, walBuffer, phase,
                   spawned, comp, clock, writeCount, latest, atClose, replayed, loaded,
                   restarted, before, ops>>
    /\ UNCHANGED <<built, appended, truncated, mutex, closedTables, fileOffset,
                   compactionLock>>

\* Byte b of the stored CRC of entry i changes on disk.
CorruptCrc(i, b) ==
    /\ pc["w1"] = Idle
    /\ i \in 1..Len(appended)
    /\ wal' = [wal EXCEPT ![WalEntryOffset(appended, i - 1) + b] = (@ + 1) % 256]
    /\ pc' = [pc EXCEPT !["w1"] = Damaged(i, "crc")]
    /\ UNCHANGED <<shards, sstFiles, liFiles, writeCh, helpers, walBuffer, phase,
                   spawned, comp, clock, writeCount, latest, atClose, replayed, loaded,
                   restarted, before, ops>>
    /\ UNCHANGED <<built, appended, truncated, mutex, closedTables, fileOffset,
                   compactionLock>>

\* The bytes of an entry after its CRC that the damage may change: the first
\* and the last byte of the timestamp, of the key and of the value, and the
\* first byte of the value size.
AlteredBytes(valLen) ==
    {5, 12, 13, 20, 21} \cup (IF valLen > 0 THEN {HeaderSize + 1, HeaderSize + valLen} ELSE {})

\* Byte b of entry i, in its timestamp, key, value size or value, changes on
\* disk.
AlterEntry(i) ==
    /\ pc["w1"] = Idle
    /\ i \in 1..Len(appended)
    /\ \E b \in AlteredBytes(Len(appended[i].val)) :
          /\ wal' = [wal EXCEPT ![WalEntryOffset(appended, i - 1) + b] = (@ + 1) % 256]
          /\ pc' = [pc EXCEPT !["w1"] = [at |-> "altered", entry |-> i, byte |-> b]]
    /\ UNCHANGED <<shards, sstFiles, liFiles, writeCh, helpers, walBuffer, phase,
                   spawned, comp, clock, writeCount, latest, atClose, replayed, loaded,
                   restarted, before, ops>>
    /\ UNCHANGED <<built, appended, truncated, mutex, closedTables, fileOffset,
                   compactionLock>>

NextTorn ==
    \/ \E key \in WalKeys, value \in WalValues : AppendEntry(key, value, NoTime)
    \/ TearLast
    \/ \E i \in 1..MaxAppends, b \in CrcBytes : CorruptCrc(i, b)
    \/ \E i \in 1..MaxAppends : AlterEntry(i)

SpecTorn == Init /\ [][NextTorn]_vars

\* ------------------------------------------------------------------------
\* Get seen read by read: two callers hold the read lock of a shard at the
\* same time, and SSTable.Get seeks and reads on the one *os.File of the
\* table, whose position the callers share.
\* ------------------------------------------------------------------------

\* The position of the file of table t.
PosOf(t) == IF t \in DOMAIN fileOffset THEN fileOffset[t] ELSE 0
SetPos(t, p) == [x \in (DOMAIN fileOffset) \cup {t} |-> IF x = t THEN p ELSE fileOffset[x]]

\* The table a lookup is at.
TableAt(r) == shards[getShard(r.key)].sstables[r.ti]

\* A lookup returns: HybridStore.Get turns a zero-length value into absent.
Answered(r, res) ==
    [at |-> "done", key |-> r.key, val |-> <<>>, ti |-> 0, ck |-> KeyOf(0), valLen |-> 0,
     res |-> IF res.ok /\ Len(res.val) = 0 THEN NotFound ELSE res]

\* SSTable.Get returns (nil, false): the loop of Get goes to the table before.
MissTable(r) ==
    IF r.ti = 1 THEN Answered(r, NotFound)
    ELSE [r EXCEPT !.at = "seek", !.ti = @ - 1, !.ck = KeyOf(0), !.valLen = 0]

\* Get(key) takes the read lock and consults the Bloom filter, the MemTable
\* and the learned indexes; with no answer there it goes to the last table.
GetStart(c, key) ==
    /\ phase = "running"
    /\ pc[c] = Idle
    /\ getShard(key) \in Shards
    /\ mutex[getShard(key)].writer = ""
    /\ mutex' = [mutex EXCEPT ![getShard(key)].readers = @ \cup {c}]
    /\ LET sh == shards[getShard(key)]
           nl == Len(sh.learnedIndexes)
           r0 == [at |-> "seek", key |-> key, val |-> <<>>, ti |-> Len(sh.sstables),
                  ck |-> KeyOf(0), valLen |-> 0, res |-> NotFound]
           m == FirstHit(<<MemGet(sh.mutableMem, key)>>
                           \o [i \in 1..nl |-> LearnedGet(sh.learnedIndexes[nl + 1 - i], key)])
       IN  pc' = [pc EXCEPT ![c] =
                     IF ~ BloomContains(sh.bloom, key) THEN Answered(r0, NotFound)
                     ELSE IF m.ok \/ m.panic THEN Answered(r0, m)
                     ELSE IF sh.sstables = <<>> THEN Answered(r0, NotFound)
                     ELSE r0]
    /\ UNCHANGED storeVars
    /\ UNCHANGED <<built, appended, truncated, closedTables, fileOffset, compactionLock>>

\* SSTable.Get: sort.Search on the index and t.file.Seek(offset, 0).
TableSeek(c) ==
    /\ pc[c].at = "seek"
    /\ LET t == TableAt(pc[c])
           ix == Open(FileBytes(t)).index
           idx == SearchFrom(ix, pc[c].key, 0, Len(ix))
           startIdx == IF idx - 1 < 0 THEN 0 ELSE idx - 1
       IN  IF Len(ix) = 0
           THEN pc' = [pc EXCEPT ![c] = Answered(pc[c], Panic)] /\ UNCHANGED fileOffset
           ELSE /\ fileOffset' = SetPos(t, ix[startIdx + 1].off)
                /\ pc' = [pc EXCEPT ![c].at = "readkey"]
    /\ UNCHANGED storeVars
    /\ UNCHANGED <<built, appended, truncated, mutex, closedTables, compactionLock>>

\* binary.Read(t.file, &k): 8 bytes at the position of the file.
ReadKey(c) ==
    /\ pc[c].at = "readkey"
    /\ LET t == TableAt(pc[c])
           b == FileBytes(t)
           p == PosOf(t)
       IN  IF p + 8 > Len(b)
           THEN /\ fileOffset' = SetPos(t, Len(b))
                /\ pc' = [pc EXCEPT ![c] = MissTable(pc[c])]
           ELSE /\ fileOffset' = SetPos(t, p + 8)
                /\ pc' = [pc EXCEPT ![c].at = "readlen",
                                     ![c].ck = Int64Of(SubSeq(b, p + 1, p + 8))]
    /\ UNCHANGED storeVars
    /\ UNCHANGED <<built, appended, truncated, mutex, closedTables, compactionLock>>

\* binary.Read(t.file, &valLen): 4 bytes at the position of the file.
ReadLen(c) ==
    /\ pc[c].at = "readlen"
    /\ LET t == TableAt(pc[c])
           b == FileBytes(t)
           p == PosOf(t)
       IN  IF p + 4 > Len(b)
           THEN /\ fileOffset' = SetPos(t, Len(b))
                /\ pc' = [pc EXCEPT ![c] = MissTable(pc[c])]
           ELSE /\ fileOffset' = SetPos(t, p + 4)
                /\ pc' = [pc EXCEPT ![c].at = "readval",
                                     ![c].valLen = Int32Of(SubSeq(b, p + 1, p + 4))]
    /\ UNCHANGED storeVars
    /\ UNCHANGED <<built, appended, truncated, mutex, closedTables, compactionLock>>

\* make([]byte, valLen), io.ReadFull(t.file, val) and the comparison of the
\* key read with the key looked up.
ReadVal(c) ==
    /\ pc[c].at = "readval"
    /\ LET r == pc[c]
           t == TableAt(r)
           b == FileBytes(t)
           p == PosOf(t)
       IN  IF r.valLen < 0
           THEN pc' = [pc EXCEPT ![c] = Answered(r, Panic)] /\ UNCHANGED fileOffset
           ELSE IF p + r.valLen > Len(b)
           THEN /\ fileOffset' = SetPos(t, Len(b))
                /\ pc' = [pc EXCEPT ![c] = MissTable(r)]
           ELSE /\ fileOffset' = SetPos(t, p + r.valLen)
                /\ pc' = [pc EXCEPT ![c] =
                              IF r.ck = r.key
                              THEN Answered(r, Found(SubSeq(b, p + 1, p + r.valLen)))
                              ELSE IF KeyLess(r.key, r.ck) THEN MissTable(r)
                              ELSE [r EXCEPT !.at = "readkey", !.ck = KeyOf(0), !.valLen = 0]]
    /\ UNCHANGED storeVars
    /\ UNCHANGED <<built, appended, truncated, mutex, closedTables, compactionLock>>

\* Get returns, and its deferred RUnlock runs.
GetReturn(c) ==
    /\ pc[c].at = "done"
    /\ mutex' = [mutex EXCEPT ![getShard(pc[c].key)].readers = @ \ {c}]
    /\ pc' = [pc EXCEPT ![c] = Idle]
    /\ UNCHANGED storeVars
    /\ UNCHANGED <<built, appended, truncated, closedTables, fileOffset, compactionLock>>

\* Put and Delete take the write lock: they run when no Get holds the mutex.
NoReader == \A id \in Shards : mutex[id].readers = {}

NextReaders ==
    \/ \E key \in Keys : NoReader /\ Put(key, ValueOf(ops))
    \/ \E key \in Keys : NoReader /\ Delete(key)
    \/ \E c \in Readers, key \in LiveKeys : GetStart(c, key)
    \/ \E c \in Readers : TableSeek(c)
    \/ \E c \in Readers : ReadKey(c)
    \/ \E c \in Readers : ReadLen(c)
    \/ \E c \in Readers : ReadVal(c)
    \/ \E c \in Readers : GetReturn(c)

SpecReaders == Init /\ [][NextReaders]_vars

\* ------------------------------------------------------------------------
\* A store whose first flush has just happened: two keys were written, the
\* second Put flushed the MemTable to an L0 table and started compactShard
\* with `go`; the goroutine has not run yet.  The WAL writer has written
\* both records.
\* ------------------------------------------------------------------------

\* The shard, the files and the records after Put(k1), Put(k2).
AfterFlush(k1, k2) ==
    LET r1 == PutLocked(NewShard(0), k1, ValueOf(MaxOps), 1)
        r2 == PutLocked(r1.shard, k2, ValueOf(MaxOps + 1), 1)
    IN  [shard |-> r2.shard,
         files |-> r2.created,
         records |-> <<Rec(k1, ValueOf(MaxOps)), Rec(k2, ValueOf(MaxOps + 1))>>]

InitFlushed ==
    \E k1, k2 \in LiveKeys :
       /\ k1 # k2
       /\ \E r \in {AfterFlush(k1, k2)} :
             /\ shards = [id \in Shards |-> r.shard]
             /\ sstFiles = r.files
             /\ wal = BatchWrite(<<>>, r.records)
             /\ latest = [k \in Keys |-> IF k = k2 THEN r.records[2].val
                                          ELSE IF k = k1 THEN r.records[1].val
                                          ELSE Never]
       /\ liFiles = {}
       /\ writeCh = <<>>
       /\ helpers = EmptyBag
       /\ walBuffer = <<>>
       /\ phase = "running"
       /\ spawned = [id \in Shards |-> 1]
       /\ comp = [id \in Shards |-> NoCompaction]
       /\ clock = 2
       /\ writeCount = 2
       /\ atClose = [k \in Keys |-> Never]
       /\ replayed = [wal |-> <<>>, tables |-> {}]
       /\ loaded = [id \in Shards |-> NoLoad]
       /\ restarted = FALSE
       /\ before = [id \in Shards |-> NoBefore]
       /\ ops = 0
       /\ built = NoIndex
       /\ appended = <<>>
       /\ truncated = NeverTruncated
       /\ pc = [c \in Callers |-> Idle]
       /\ mutex = [id \in Shards |-> Unlocked]
       /\ closedTables = {}
       /\ fileOffset = << >>
       /\ compactionLock = [id \in Shards |-> FALSE]

\* The store until it is closed.
NextFlushed ==
    \/ \E key \in Keys : Put(key, ValueOf(ops))
    \/ \E key \in LiveKeys : Delete(key)
    \/ HelperSend
    \/ WalReceive
    \/ WalTick
    \/ \E id \in Shards : CompactStart(id)
    \/ \E id \in Shards : CompactInstall(id)
    \/ \E id \in Shards : CompactRebuild(id)
    \/ \E id \in Shards : CompactPersist(id)
    \/ \E id \in Shards : CompactCleanup(id)

SpecFlushed == InitFlushed /\ [][NextFlushed]_vars

\* ------------------------------------------------------------------------
\* Compactions on a failing disk: in every compactShard call that gets as
\* far as its merge, os.Create of the output fails, or the file of one input
\* table cannot be opened, or a read of it fails part way.
\* ------------------------------------------------------------------------

\* The merge of compactShard when input f yields n records and then fails.
\* NewIterator that cannot open the file returns an iterator whose Next is
\* false (n = 0); a Next whose read fails returns false as at the end of
\* the file, and compactShard never looks at the iterator's err.
CompactMergeFailing(inputTables, files, f, n) ==
    MergeLoop(DropExhausted([i \in 1..Len(inputTables) |->
                               IF i = f
                               THEN SubSeq(IterRecords(inputTables[i], files), 1, n)
                               ELSE IterRecords(inputTables[i], files)]))

\* compactShard from TryLock to sstable.Open(outPath), with the failure.
CompactStartFailing(id) ==
    /\ phase = "running"
    /\ spawned[id] > 0
    /\ spawned' = [spawned EXCEPT ![id] = @ - 1]
    /\ \/ UNCHANGED <<comp, sstFiles, clock, before>>   \* no lock, too few tables, no output file
       \/ /\ comp[id].pc = "idle"
          /\ Len(shards[id].l0SSTables) >= CompactionThreshold
          /\ \E f \in 1..Len(shards[id].l0SSTables) :
             \E n \in 0..(Len(IterRecords(shards[id].l0SSTables[f], sstFiles)) - 1) :
             \E newSST \in {SSTFile(id, 1, clock, "compacted",
                                    CompactMergeFailing(shards[id].l0SSTables, sstFiles, f, n))} :
                /\ comp' = [comp EXCEPT ![id] =
                              [pc |-> "merged", inputTables |-> shards[id].l0SSTables,
                               newSST |-> <<newSST>>, rebuilt |-> <<>>]]
                /\ sstFiles' = sstFiles \cup {newSST}
                /\ clock' = clock + 1
                /\ before' = [before EXCEPT ![id] = Observed]
    /\ UNCHANGED unitVars
    /\ UNCHANGED <<shards, liFiles, wal, writeCh, helpers, walBuffer, phase,
                   writeCount, latest, atClose, replayed, loaded, restarted, ops>>

NextFaulty ==
    \/ \E key \in LiveKeys : Put(key, ValueOf(ops))
    \/ \E id \in Shards : CompactStartFailing(id)
    \/ \E id \in Shards : CompactInstall(id)
    \/ \E id \in Shards : CompactRebuild(id)
    \/ \E id \in Shards : CompactPersist(id)
    \/ \E id \in Shards : CompactCleanup(id)

SpecFaulty == InitFlushed /\ [][NextFaulty]_vars

\* ------------------------------------------------------------------------
\* compactShard seen step by step, with its guard: every goroutine that a
\* flush starts with `go hs.compactShard(shard)` runs the function from its
\* TryLock on, while callers go on writing.  Two goroutines are followed.
\* ------------------------------------------------------------------------

\* A TryLock that takes the lock whoever holds it.
TryLockAlways(locked) == TRUE

\* sync.Mutex.TryLock: it takes the lock, and reports true, exactly when the
\* lock is free.
TryLock(locked) == ~locked

\* The goroutine is in compactShard for shard id, at a place, with its
\* inputTables and newSST.
InCompact(id, at, inputTables, newSST) ==
    [at |-> at, key |-> KeyOf(0), val |-> <<>>, id |-> id,
     inputTables |-> inputTables, newSST |-> newSST]

\* The places of compactShard after a TryLock that returned true.
GuardedPlaces == {"snapshot", "merge", "install", "rebuild"}

\* `go hs.compactShard(shard)`: the goroutine starts to run.
GuardSpawn(c, id) ==
    /\ phase = "running"
    /\ pc[c].at \in {"idle", "refused", "returned"}
    /\ spawned[id] > 0
    /\ spawned' = [spawned EXCEPT ![id] = @ - 1]
    /\ pc' = [pc EXCEPT ![c] = InCompact(id, "trylock", <<>>, <<>>)]
    /\ UNCHANGED <<shards, sstFiles, liFiles, wal, writeCh, helpers, walBuffer, phase,
                   comp, clock, writeCount, latest, atClose, replayed, loaded, restarted,
                   before, ops>>
    /\ UNCHANGED <<built, appended, truncated, mutex, closedTables, fileOffset, compactionLock>>

\* if !shard.compactionLock.TryLock() { return }
GuardTryLock(c) ==
    /\ pc[c].at = "trylock"
    /\ IF TryLock(compactionLock[pc[c].id])
       THEN /\ compactionLock' = [compactionLock EXCEPT ![pc[c].id] = TRUE]
            /\ pc' = [pc EXCEPT ![c].at = "snapshot"]
       ELSE /\ pc' = [pc EXCEPT ![c].at = "refused"]
            /\ UNCHANGED compactionLock
    /\ UNCHANGED storeVars
    /\ UNCHANGED <<built, appended, truncated, mutex, closedTables, fileOffset>>

\* The copy of l0SSTables under RLock and the return when the tables are
\* fewer than CompactionThreshold; the deferred Unlock runs at the return.
GuardSnapshot(c) ==
    /\ pc[c].at = "snapshot"
    /\ IF Len(shards[pc[c].id].l0SSTables) < CompactionThreshold
       THEN /\ pc' = [pc EXCEPT ![c].at = "returned"]
            /\ compactionLock' = [compactionLock EXCEPT ![pc[c].id] = FALSE]
       ELSE /\ pc' = [pc EXCEPT ![c] = InCompact(pc[c].id, "merge",
                                                  shards[pc[c].id].l0SSTables, <<>>)]
            /\ UNCHANGED compactionLock
    /\ UNCHANGED storeVars
    /\ UNCHANGED <<built, appended, truncated, mutex, closedTables, fileOffset>>

\* From the iterators to sstable.Open(outPath): the output is written and
\* opened, or NewBuilder or Open fails and compactShard returns.
GuardMerge(c) ==
    /\ pc[c].at = "merge"
    /\ \/ /\ pc' = [pc EXCEPT ![c].at = "returned"]
          /\ compactionLock' = [compactionLock EXCEPT ![pc[c].id] = FALSE]
          /\ UNCHANGED <<sstFiles, clock>>
       \/ \E newSST \in {SSTFile(pc[c].id, 1, clock, "compacted",
                                 CompactMerge(pc[c].inputTables, sstFiles))} :
             /\ pc' = [pc EXCEPT ![c] = InCompact(pc[c].id, "install",
                                                   pc[c].inputTables, <<newSST>>)]
             /\ sstFiles' = sstFiles \cup {newSST}
             /\ clock' = clock + 1
             /\ UNCHANGED compactionLock
    /\ UNCHANGED <<shards, liFiles, wal, writeCh, helpers, walBuffer, phase, spawned,
                   comp, writeCount, latest, atClose, replayed, loaded, restarted,
                   before, ops>>
    /\ UNCHANGED <<built, appended, truncated, mutex, closedTables, fileOffset>>

\* The section under shard.mutex that installs newSST.
GuardInstall(c) ==
    /\ pc[c].at = "install"
    /\ shards' = [shards EXCEPT ![pc[c].id] =
                    InstallCompacted(@, Len(pc[c].inputTables), pc[c].newSST[1])]
    /\ pc' = [pc EXCEPT ![c].at = "rebuild"]
    /\ UNCHANGED <<sstFiles, liFiles, wal, writeCh, helpers, walBuffer, phase, spawned,
                   comp, clock, writeCount, latest, atClose, replayed, loaded, restarted,
                   before, ops>>
    /\ UNCHANGED <<built, appended, truncated, mutex, closedTables, fileOffset, compactionLock>>

\* rebuildLearnedIndexFromSSTables, the removal of the input files and the
\* return, at which the deferred Unlock runs.
GuardFinish(c) ==
    /\ pc[c].at = "rebuild"
    /\ \E rebuilt \in {RebuiltIndexes(shards[pc[c].id].sstables, sstFiles)} :
          /\ shards' = [shards EXCEPT ![pc[c].id].learnedIndexes = rebuilt]
          /\ liFiles' = IF rebuilt = <<>> THEN liFiles
                        ELSE persistLearnedIndex(shards[pc[c].id], rebuilt[1],
                                                 sstFiles, liFiles)
    /\ sstFiles' = sstFiles \ {pc[c].inputTables[i] : i \in 1..Len(pc[c].inputTables)}
    /\ compactionLock' = [compactionLock EXCEPT ![pc[c].id] = FALSE]
    /\ pc' = [pc EXCEPT ![c].at = "returned"]
    /\ UNCHANGED <<wal, writeCh, helpers, walBuffer, phase, spawned,
                   comp, clock, writeCount, latest, atClose, replayed, loaded, restarted,
                   before, ops>>
    /\ UNCHANGED <<built, appended, truncated, mutex, closedTables, fileOffset>>

NextGuard ==
    \/ \E key \in LiveKeys : Put(key, ValueOf(ops))
    \/ \E c \in Writers, id \in Shards : GuardSpawn(c, id)
    \/ \E c \in Writers : GuardTryLock(c)
    \/ \E c \in Writers : GuardSnapshot(c)
    \/ \E c \in Writers : GuardMerge(c)
    \/ \E c \in Writers : GuardInstall(c)
    \/ \E c \in Writers : GuardFinish(c)

SpecGuard == InitFlushed /\ [][NextGuard]_vars

\* ------------------------------------------------------------------------
\* Package sstable on its own: a table is written with the Builder for a
\* list of up to MaxTableLen records, opened, and read with an iterator.
\* ------------------------------------------------------------------------

MaxTableLen == 4
AddedRecords == {Rec(k, v) : k \in Keys, v \in {Tombstone, ValueOf(0)}}
RecordLists == UNION {[1..n -> AddedRecords] : n \in 0..MaxTableLen}

\* NewBuilder, Add for every record of recs, Close; then Open, NewIterator
\* and Next until it returns false.
IterateTable(c, recs) ==
    /\ pc[c].at = "idle"
    /\ pc' = [pc EXCEPT ![c] =
                [at |-> "iterated", key |-> KeyOf(0), val |-> <<>>, recs |-> recs,
                 opened |-> Open(BuilderBytes(recs)).ok,
                 out |-> IterFrom(BuilderBytes(recs), 0)]]
    /\ UNCHANGED storeVars
    /\ UNCHANGED <<built, appended, truncated, mutex, closedTables, fileOffset, compactionLock>>

NextTable == \E c \in LiveReaders, recs \in RecordLists : IterateTable(c, recs)

SpecTable == Init /\ [][NextTable]_vars

\* ------------------------------------------------------------------------
\* Flushes on a failing disk: a Put whose flush cannot create the table file
\* (sstable.NewBuilder fails) or cannot open the file it wrote (sstable.Open
\* fails).  The keys lie in one sub-map of the MemTable, so that the tables
\* which do get written are ascending.
\* ------------------------------------------------------------------------

FlushKeys == LiveKeys
FlushFailures == {"create", "open"}

\* adaptiveFlush when NewBuilder (failure = "create") or Open (failure =
\* "open") returns an error: no table is appended, the check of the
\* compaction threshold and the replacement of the MemTable run all the same.
adaptiveFlushFailing(sh, now, failure) ==
    IF MemCount(sh.mutableMem) < MinFlushCount
    THEN [shard |-> sh, created |-> {}, spawn |-> FALSE]
    ELSE [shard |-> [sh EXCEPT !.mutableMem = NewMemTable],
          created |-> IF failure = "open"
                      THEN {SSTFile(sh.id, 0, now, "l0", MemIterator(sh.mutableMem))}
                      ELSE {},
          spawn |-> Len(sh.l0SSTables) >= CompactionThreshold]

\* The part of Put under the shard lock, with the failing flush.
PutLockedFailing(sh, key, val, now, failure) ==
    LET sh1 == [sh EXCEPT !.bloom = BloomAdd(@, key),
                          !.mutableMem = MemPut(@, key, val)]
    IN  IF MemCount(sh1.mutableMem) >= MemTableFlushThreshold
        THEN adaptiveFlushFailing(sh1, now, failure)
        ELSE [shard |-> sh1, created |-> {}, spawn |-> FALSE]

\* HybridStore.Put(key, val) with a flush, if it comes to one, that fails.
PutFailing(key, val, failure) ==
    /\ phase = "running"
    /\ ops < MaxOps
    /\ getShard(key) \in Shards
    /\ writeCount' = writeCount + 1
    /\ IF Len(writeCh) < WalBufferSize
       THEN writeCh' = Append(writeCh, Rec(key, val)) /\ UNCHANGED helpers
       ELSE helpers' = helpers (+) SetToBag({Rec(key, val)}) /\ UNCHANGED writeCh
    /\ \E r \in {PutLockedFailing(shards[getShard(key)], key, val, clock, failure)} :
          /\ shards' = [shards EXCEPT ![getShard(key)] = r.shard]
          /\ sstFiles' = sstFiles \cup r.created
          /\ clock' = IF r.created = {} THEN clock ELSE clock + 1
          /\ spawned' = [spawned EXCEPT ![getShard(key)] = IF r.spawn THEN @ + 1 ELSE @]
    /\ latest' = [latest EXCEPT ![key] = val]
    /\ ops' = ops + 1
    /\ before' = [id \in Shards |-> NoBefore]
    /\ UNCHANGED unitVars
    /\ UNCHANGED <<liFiles, wal, walBuffer, phase, comp, atClose, replayed, loaded,
                   restarted>>

NextFlushFail ==
    \/ \E key \in FlushKeys : Put(key, ValueOf(ops))
    \/ \E key \in FlushKeys, failure \in FlushFailures :
          PutFailing(key, ValueOf(ops), failure)
    \/ HelperSend
    \/ WalReceive
    \/ WalTick

SpecFlushFail == Init /\ [][NextFlushFail]_vars

\* ------------------------------------------------------------------------
\* A constructor whose startup checkpoint fails: for one shard the table
\* cannot be created, an Add or the Close of the builder fails, or the table
\* written cannot be opened.
\* ------------------------------------------------------------------------

CheckpointFailures == {"create", "add", "close", "open"}

\* A checkpoint that truncates the WAL whatever happened.
TruncateAfterAnyway(failed, checkpointed, w) == WalTruncate(w)

\* The end of checkpointAndTruncateWAL: an error of the loop has returned
\* before the Truncate, a loop that wrote no table returns nil without it.
TruncateAfter(failed, checkpointed, w) ==
    IF failed THEN w
    ELSE IF checkpointed = 0 THEN w
    ELSE WalTruncate(w)

\* The records the checkpoint of a shard writes, in key order.
CheckpointRecords(sh) ==
    MapRecords(ApplyRecords(ApplyRecords(<< >>, AllRecords(sh.learnedIndexes)),
                            MemScan(sh.mutableMem, MinKey, MaxKey)))

\* The files the failing body of the loop may leave in the directory: none
\* when the file was not created, a table of the records added before the
\* failing Add, the whole table when only Open failed.
LeftBy(failure, sh, now) ==
    LET records == CheckpointRecords(sh)
    IN  IF failure = "create" THEN {{}}
        ELSE IF failure = "add"
        THEN {{SSTFile(sh.id, 1, now, "checkpoint", SubSeq(records, 1, n))} :
                n \in 0..(Len(records) - 1)}
        ELSE {{SSTFile(sh.id, 1, now, "checkpoint", records)}}

\* NewHybridStore for one shard when the checkpoint fails at shard failing:
\* the shards before it are checkpointed, the others keep what the restore
\* and the replay gave them.
startShardFailing(id, files, lis, records, walIndex, now, failing) ==
    LET r1 == restoreLearnedIndexes(restoreSSTables(id, files), files, lis)
        data == ShardData(records, id)
        sh2 == [r1.shard EXCEPT !.bloom = @ \cup KeysOf(data),
                                !.learnedIndexes = @ \o walIndex]
        r3 == IF id < failing
              THEN checkpointShard(sh2, files, r1.lis, now)
              ELSE [shard |-> sh2, created |-> {}, lis |-> r1.lis]
    IN  [shard |-> r3.shard, created |-> r3.created, replayedShard |-> sh2,
         lis |-> {f \in r3.lis : f.shard = id}, loaded |-> r1.loaded]

\* NewHybridStore whose checkpoint fails at shard failing with failure: the
\* outcomes it may have.
NewHybridStoreFailing(files, lis, w, now, failing, failure) ==
    LET records == LoadAll(w)
    IN  {LET r == [id \in Shards |->
                     startShardFailing(id, files, lis, records, walIndex[id],
                                       now + id, failing)]
             created == UNION {r[id].created : id \in Shards}
         IN  [shards |-> [id \in Shards |-> r[id].shard],
              sstFiles |-> files \cup created \cup left,
              liFiles |-> {f \in lis : f.shard \notin Shards}
                            \cup UNION {r[id].lis : id \in Shards},
              wal |-> TruncateAfter(TRUE, Cardinality(created), w),
              clock |-> now + ShardCount,
              replayed |-> [wal |-> records, tables |-> created, failed |-> failure],
              loaded |-> [id \in Shards |-> r[id].loaded],
              canFail |-> CheckpointRecords(r[failing].replayedShard) # <<>>]
         : walIndex \in WalIndexChoices(records),
           left \in LeftBy(failure,
                           startShardFailing(failing, files, lis, records,
                              (CHOOSE x \in WalIndexChoices(records) : TRUE)[failing],
                              now + failing, failing).replayedShard,
                           now + failing)}

\* A new process calls NewHybridStore on the data directory, for the first
\* time in the run; the WAL holds records and the checkpoint of shard failing
\* returns an error.
RestartFailing(failing, failure) ==
    /\ phase = "closed"
    /\ ~restarted
    /\ LoadAll(wal) # <<>>
    /\ \E n \in NewHybridStoreFailing(sstFiles, liFiles, wal, clock, failing, failure) :
          /\ n.canFail
          /\ shards' = n.shards
          /\ sstFiles' = n.sstFiles
          /\ liFiles' = n.liFiles
          /\ wal' = n.wal
          /\ clock' = n.clock
          /\ replayed' = n.replayed
          /\ loaded' = n.loaded
    /\ phase' = "running"
    /\ restarted' = TRUE
    /\ UNCHANGED unitVars
    /\ UNCHANGED <<writeCh, helpers, walBuffer, spawned, comp, writeCount, before,
                   latest, atClose, ops>>

NextColdFail ==
    \/ \E key \in Keys : Put(key, ValueOf(ops))
    \/ HelperSend
    \/ WalReceive
    \/ WalTick
    \/ Close
    \/ \E failing \in Shards, failure \in CheckpointFailures :
          RestartFailing(failing, failure)

SpecColdFail == Init /\ [][NextColdFail]_vars

\* ------------------------------------------------------------------------
\* Readers and the end of a compaction: Get and Scan hold the read lock of
\* the shard from their first line to their return and reach the tables
\* through shard.sstables; the install of compactShard takes the write lock;
\* the input tables are closed and their files removed after it.
\* ------------------------------------------------------------------------

\* The tables the callers that hold a read lock reached through the view.
Holding(c, op, id) ==
    [at |-> "reading", op |-> op, shard |-> id, tables |-> shards[id].sstables]

\* Get(key) from shard.mutex.RLock() on: the caller holds the lock and the
\* view it found.
GetHolding(c, key) ==
    /\ phase = "running"
    /\ pc[c] = Idle
    /\ CanRLock(getShard(key))
    /\ mutex' = [mutex EXCEPT ![getShard(key)].readers = @ \cup {c}]
    /\ pc' = [pc EXCEPT ![c] = Holding(c, "get", getShard(key))]
    /\ UNCHANGED storeVars
    /\ UNCHANGED <<built, appended, truncated, closedTables, fileOffset, compactionLock>>

\* Scan(start, end) in its loop over the shards, at shard id.
ScanHolding(c, id) ==
    /\ phase = "running"
    /\ pc[c] = Idle
    /\ CanRLock(id)
    /\ mutex' = [mutex EXCEPT ![id].readers = @ \cup {c}]
    /\ pc' = [pc EXCEPT ![c] = Holding(c, "scan", id)]
    /\ UNCHANGED storeVars
    /\ UNCHANGED <<built, appended, truncated, closedTables, fileOffset, compactionLock>>

\* The deferred RUnlock of Get, the RUnlock that ends Scan's turn at a shard.
ReaderReturn(c) ==
    /\ pc[c].at = "reading"
    /\ mutex' = [mutex EXCEPT ![pc[c].shard].readers = @ \ {c}]
    /\ pc' = [pc EXCEPT ![c] = Idle]
    /\ UNCHANGED storeVars
    /\ UNCHANGED <<built, appended, truncated, closedTables, fileOffset, compactionLock>>

\* Put takes the write lock of the shard of its key.
PutExclusive(key, val) ==
    /\ getShard(key) \in Shards
    /\ CanLock(mutex[getShard(key)])
    /\ Put(key, val)

\* compactShard, the install between shard.mutex.Lock() and Unlock().
InstallExclusive(id) ==
    /\ CanLock(mutex[id])
    /\ CompactInstall(id)

\* compactShard, old.Close() and os.Remove(old.Filename) for every input.
CompactClose(id) ==
    /\ phase = "running"
    /\ comp[id].pc = "persisted"
    /\ \E inputs \in {{comp[id].inputTables[i] : i \in 1..Len(comp[id].inputTables)}} :
          /\ sstFiles' = sstFiles \ inputs
          /\ closedTables' = closedTables \cup inputs
    /\ comp' = [comp EXCEPT ![id] = NoCompaction]
    /\ UNCHANGED <<built, appended, truncated, pc, mutex, fileOffset, compactionLock>>
    /\ UNCHANGED <<shards, liFiles, wal, writeCh, helpers, walBuffer, phase,
                   spawned, clock, writeCount, latest, atClose, replayed, loaded,
                   restarted, before, ops>>

NextReclaim ==
    \/ \E key \in LiveKeys : PutExclusive(key, ValueOf(ops))
    \/ \E c \in Readers, key \in LiveKeys : GetHolding(c, key)
    \/ \E c \in Readers, id \in Shards : ScanHolding(c, id)
    \/ \E c \in Readers : ReaderReturn(c)
    \/ \E id \in Shards : CompactStart(id)
    \/ \E id \in Shards : InstallExclusive(id)
    \/ \E id \in Shards : CompactRebuild(id)
    \/ \E id \in Shards : CompactPersist(id)
    \/ \E id \in Shards : CompactClose(id)

SpecReclaim == InitFlushed /\ [][NextReclaim]_vars

\* ------------------------------------------------------------------------
\* The routing of a key to a shard on its own: stores of 1 to MaxShardCount
\* shards, and keys from all over the int64 range.
\* ------------------------------------------------------------------------

MaxShardCount == 4
ShardCounts == 1..MaxShardCount
RouteKeys == {MinKey, KeyOf(-17), KeyOf(-16), KeyOf(-1), KeyOf(0), KeyOf(1),
              KeyOf(16), MaxKey}

\* The index Put and Get use, hs.shards[int(key) % ShardCount], and the one
\* recoverFromWAL uses, idx := int(r.Key) % ShardCount, in a store of n
\* shards.
ShardIndex(key, n) == GoRem(key, n)
ReplayIndex(key, n) == GoRem(key, n)

\* A caller of a store of n shards calls Put (w1) or Get (r1) with the key,
\* or a constructor (w2) replays a WAL record with the key.
Routed(op, key, n, idx) ==
    [at |-> "routed", op |-> op, key |-> key, val |-> <<>>, count |-> n, idx |-> idx]

RoutePut(c, key, n) ==
    /\ pc' = [pc EXCEPT ![c] = Routed("Put", key, n, ShardIndex(key, n))]
    /\ UNCHANGED storeVars
    /\ UNCHANGED <<built, appended, truncated, mutex, closedTables, fileOffset, compactionLock>>

RouteGet(c, key, n) ==
    /\ pc' = [pc EXCEPT ![c] = Routed("Get", key, n, ShardIndex(key, n))]
    /\ UNCHANGED storeVars
    /\ UNCHANGED <<built, appended, truncated, mutex, closedTables, fileOffset, compactionLock>>

RouteReplay(c, key, n) ==
    /\ pc' = [pc EXCEPT ![c] = Routed("replay", key, n, ReplayIndex(key, n))]
    /\ UNCHANGED storeVars
    /\ UNCHANGED <<built, appended, truncated, mutex, closedTables, fileOffset, compactionLock>>

NextRoute ==
    \/ \E c \in {"w1"}, key \in RouteKeys, n \in ShardCounts : RoutePut(c, key, n)
    \/ \E c \in LiveReaders, key \in RouteKeys, n \in ShardCounts : RouteGet(c, key, n)
    \/ \E c \in {"w2"}, key \in RouteKeys, n \in ShardCounts : RouteReplay(c, key, n)

SpecRoute == Init /\ [][NextRoute]_vars

\* ------------------------------------------------------------------------
\* A compaction whose output crosses an index boundary: a store configured
\* to flush at about IndexRate records.  Two keys were written, flushed and
\* compacted into an L1 table; then a number of keys, multiples of 16 from
\* 0 on, filled the MemTable, and the flush of it has started a compaction.
\* ------------------------------------------------------------------------

\* The MemTable counts at which the store flushes, and the older keys.
FlushSizes == (IndexRate - 1)..(IndexRate + 1)
OlderKeys == {KeyOf(1), KeyOf(2), KeyOf(3), KeyOf(4), KeyOf(5), KeyOf(6), KeyOf(7)}

FlushedKeys(n) == {KeyOf(16 * j) : j \in 0..(n - 1)}

\* The shard and the files after the compaction of k and one large key and
\* the flush of n keys at time 3.
FlushAfter(c, n) ==
    LET r == adaptiveFlush([c.shard EXCEPT
                               !.mutableMem = [x \in FlushedKeys(n) |-> ValueOf(0)],
                               !.bloom = @ \cup FlushedKeys(n)], 3)
    IN  [shard |-> r.shard, files |-> c.files \cup r.created, lis |-> c.lis]

AfterWideFlush(k, n) ==
    CHOOSE w \in {FlushAfter(c, n) : c \in {AfterCompaction(k, KeyOf(32 * IndexRate))}} : TRUE

InitWide ==
    \E k \in OlderKeys, n \in FlushSizes :
       /\ \E r \in {AfterWideFlush(k, n)} :
             /\ shards = [id \in Shards |-> r.shard]
             /\ sstFiles = r.files
             /\ liFiles = r.lis
       /\ wal = <<>>
       /\ writeCh = <<>>
       /\ helpers = EmptyBag
       /\ walBuffer = <<>>
       /\ phase = "running"
       /\ spawned = [id \in Shards |-> 1]
       /\ comp = [id \in Shards |-> NoCompaction]
       /\ clock = 4
       /\ writeCount = MaxOps
       /\ latest = [x \in Keys |-> Never]
       /\ atClose = [x \in Keys |-> Never]
       /\ replayed = [wal |-> <<>>, tables |-> {}]
       /\ loaded = [id \in Shards |-> NoLoad]
       /\ restarted = FALSE
       /\ before = [id \in Shards |-> NoBefore]
       /\ ops = MaxOps
       /\ built = NoIndex
       /\ appended = <<>>
       /\ truncated = NeverTruncated
       /\ pc = [c \in Callers |-> Idle]
       /\ mutex = [id \in Shards |-> Unlocked]
       /\ closedTables = {}
       /\ fileOffset = << >>
       /\ compactionLock = [id \in Shards |-> FALSE]

NextWide ==
    \/ \E id \in Shards : CompactStart(id)
    \/ \E id \in Shards : CompactInstall(id)
    \/ \E id \in Shards : CompactRebuild(id)
    \/ \E id \in Shards : CompactPersist(id)
    \/ \E id \in Shards : CompactCleanup(id)

SpecWide == InitWide /\ [][NextWide]_vars

\* ------------------------------------------------------------------------
\* Package learned on its own: Build on a set of records with distinct keys
\* and a model that predicts any position for a key, then Get.
\* ------------------------------------------------------------------------

\* The number of records of the wide data: with it the window of Get can
\* span 17 positions, which sends Get to its binary search.
WideLen == 17

NarrowKeys == {KeyOf(-5), KeyOf(0), KeyOf(7)}
WideKeys == {KeyOf(2 * n) : n \in 0..(WideLen - 1)}

\* The positions a model may predict: before the array, in it, after it.
Positions == {-20, -1, 0, 1, 2, 16, 17, 40}

\* The records of the keys S as the caller passes them to Build, the
\* largest key first, each with a value of its own.
DataOf(S) ==
    LET ks == Ascend(S)
    IN  [i \in 1..Len(ks) |-> Rec(ks[Len(ks) + 1 - i], <<97 + i>>)]

\* The models over the keys S that predict a position other than 0 for at
\* most two of them.
SparseModels(S) ==
    {<< >>}
      \cup {k1 :> p1 : k1 \in S, p1 \in Positions}
      \cup UNION {UNION {{k1 :> p1 @@ k2 :> p2 : p1, p2 \in Positions} :
                         k2 \in {k \in S : KeyLess(k1, k)}} :
                  k1 \in S}

InitIndex ==
    /\ InitStore
    /\ appended = <<>>
    /\ truncated = NeverTruncated
    /\ pc = [c \in Callers |-> Idle]
    /\ mutex = [id \in Shards |-> Unlocked]
    /\ closedTables = {}
    /\ fileOffset = << >>
    /\ compactionLock = [id \in Shards |-> FALSE]
    /\ \/ \E S \in (SUBSET NarrowKeys) \ {{}} :
             \E m \in [S -> Positions] : built = [data |-> DataOf(S), model |-> m, li |-> <<>>]
       \/ \E m \in SparseModels(WideKeys) :
             built = [data |-> DataOf(WideKeys), model |-> m, li |-> <<>>]

\* learned.Build(data), the trained model being built.model.
BuildIndex ==
    /\ built.li = <<>>
    /\ built.data # <<>>
    /\ \E sorted \in SortSlice(built.data, 1..Len(built.data)) :
          built' = [built EXCEPT !.li = <<BuildWith(sorted, built.model)>>]
    /\ UNCHANGED storeVars
    /\ UNCHANGED <<appended, truncated, pc, mutex, closedTables, fileOffset, compactionLock>>

NextIndex == BuildIndex

SpecIndex == InitIndex /\ [][NextIndex]_vars

\* ------------------------------------------------------------------------
\* LearnedIndex.Append: an index built by Build, with the model RMIModel
\* trains, and then extended by Append.  The sums of a bucket's regression
\* are kept as integers and its line is evaluated exactly; the keys are small
\* non-negative numbers, told by their low word.
\* ------------------------------------------------------------------------

\* model.NewRMIModel(1000) in Build.
Fanout == 1000

\* The most records one Append call adds.
MaxAppendLen == 4

AppendKeys == {KeyOf(0), KeyOf(1), KeyOf(2), KeyOf(3), KeyOf(4), KeyOf(20)}

\* int(x) of a quotient a / b with b > 0: truncation toward zero.
TruncDiv(a, b) == IF a >= 0 THEN a \div b ELSE -((-a) \div b)

\* A LinearModel with no point.
NewLinearModel == [n |-> 0, sumX |-> 0, sumY |-> 0, sumXY |-> 0, sumXX |-> 0]

\* LinearModel.Update(key, pos), the sums; solve() is part of LinearPredict.
LinearUpdate(lm, x, y) ==
    [n |-> lm.n + 1, sumX |-> lm.sumX + x, sumY |-> lm.sumY + y,
     sumXY |-> lm.sumXY + x * y, sumXX |-> lm.sumXX + x * x]

\* LinearModel.Predict(key) after solve(): int(Slope * key + Intercept), with
\* Slope = (n*sumXY - sumX*sumY) / denominator and
\* Intercept = (sumY - Slope*sumX) / n, both 0 when the denominator is 0.
LinearPredict(lm, x) ==
    LET denominator == lm.n * lm.sumXX - lm.sumX * lm.sumX
        slopeNum == lm.n * lm.sumXY - lm.sumX * lm.sumY
    IN  IF denominator = 0 THEN 0
        ELSE TruncDiv(slopeNum * (lm.n * x - lm.sumX) + lm.sumY * denominator,
                      lm.n * denominator)

\* bucketIdx of Train, Predict and Update.
BucketIdx(rmi, x) ==
    LET keyRange == IF rmi.GlobalMax - rmi.GlobalMin = 0 THEN 1
                    ELSE rmi.GlobalMax - rmi.GlobalMin
        idx == TruncDiv((x - rmi.GlobalMin) * Fanout, keyRange)
    IN  IF idx >= Fanout THEN Fanout - 1 ELSE IF idx < 0 THEN 0 ELSE idx

BucketAt(rmi, idx) ==
    IF idx \in DOMAIN rmi.Buckets THEN rmi.Buckets[idx] ELSE NewLinearModel

\* RMIModel.Update(key, pos).
RMIUpdate(rmi, x, pos) ==
    LET idx == BucketIdx(rmi, x)
    IN  [rmi EXCEPT !.Buckets =
           (idx :> LinearUpdate(BucketAt(rmi, idx), x, pos)) @@ @]

\* Update for the records recs placed from position pos on (0-based).
RECURSIVE RMIUpdateAll(_, _, _)
RMIUpdateAll(rmi, recs, pos) ==
    IF recs = <<>> THEN rmi
    ELSE RMIUpdateAll(RMIUpdate(rmi, Head(recs).key[2], pos), Tail(recs), pos + 1)

\* RMIModel.Train(keys) for the sorted records recs: TrainWithPos sums the
\* points of each bucket as Update does.
RMITrain(recs) ==
    RMIUpdateAll([GlobalMin |-> recs[1].key[2], GlobalMax |-> recs[Len(recs)].key[2],
                  Buckets |-> << >>], recs, 0)

\* RMIModel.Predict(key).
RMIPredict(rmi, x) ==
    IF rmi.GlobalMax - rmi.GlobalMin = 0 THEN 0
    ELSE LinearPredict(BucketAt(rmi, BucketIdx(rmi, x)), x)

\* The model as the table of the positions it predicts for the keys of recs.
PredictionTable(rmi, recs) ==
    [k \in KeysOf(recs) |-> RMIPredict(rmi, k[2])]

\* The second loop of Append: the errors of the new records only, at their
\* positions from startPos on, widen [MinErr, MaxErr].
RECURSIVE AppendMinErr(_, _, _, _)
AppendMinErr(newData, model, globalPos, minErr) ==
    IF newData = <<>> THEN minErr
    ELSE AppendMinErr(Tail(newData), model, globalPos + 1,
                      Min2(minErr, globalPos - Predict(model, Head(newData).key)))

RECURSIVE AppendMaxErr(_, _, _, _)
AppendMaxErr(newData, model, globalPos, maxErr) ==
    IF newData = <<>> THEN maxErr
    ELSE AppendMaxErr(Tail(newData), model, globalPos + 1,
                      Max2(maxErr, globalPos - Predict(model, Head(newData).key)))

\* LearnedIndex.Append(newData) on the index li whose model has the sums rmi.
LearnedAppend(li, rmi, newData) ==
    IF newData = <<>> THEN [li |-> li, rmi |-> rmi]
    ELSE LET startPos == Len(li.Records)
             records == li.Records \o newData
             rmi1 == RMIUpdateAll(rmi, newData, startPos)
             model == PredictionTable(rmi1, records)
         IN  [li |-> [Records |-> records,
                      Model |-> model,
                      MinErr |-> AppendMinErr(newData, model, startPos, li.MinErr),
                      MaxErr |-> AppendMaxErr(newData, model, startPos, li.MaxErr)],
              rmi |-> rmi1]

\* The ascending sequences of at least one and at most MaxAppendLen keys of S.
NewKeySeqs(S) ==
    {Ascend(T) : T \in {T \in SUBSET S : T # {} /\ Cardinality(T) <= MaxAppendLen}}

InitAppend ==
    /\ InitStore
    /\ appended = <<>>
    /\ truncated = NeverTruncated
    /\ pc = [c \in Callers |-> Idle]
    /\ mutex = [id \in Shards |-> Unlocked]
    /\ closedTables = {}
    /\ fileOffset = << >>
    /\ compactionLock = [id \in Shards |-> FALSE]
    /\ \E S \in (SUBSET AppendKeys) \ {{}} :
          built = [data |-> DataOf(S), model |-> << >>, li |-> <<>>]

\* learned.Build(data) with the model Train computes.
BuildTrained ==
    /\ built.li = <<>>
    /\ \E sorted \in SortSlice(built.data, 1..Len(built.data)) :
          \E rmi \in {RMITrain(sorted)} :
             built' = [data |-> built.data,
                       model |-> rmi,
                       li |-> <<BuildWith(sorted, PredictionTable(rmi, sorted))>>]
    /\ UNCHANGED storeVars
    /\ UNCHANGED <<appended, truncated, pc, mutex, closedTables, fileOffset, compactionLock>>

\* li.Append(newData) with new keys above every key of the index, in
\* ascending order.
AppendIndex ==
    /\ built.li # <<>>
    /\ \E ks \in NewKeySeqs({k \in AppendKeys :
                              \A i \in 1..Len(built.li[1].Records) :
                                 KeyLess(built.li[1].Records[i].key, k)}) :
          \E r \in {LearnedAppend(built.li[1], built.model,
                                  [i \in 1..Len(ks) |->
                                     Rec(ks[i], <<65 + Len(built.li[1].Records) + i>>)])} :
             built' = [data |-> built.data, model |-> r.rmi, li |-> <<r.li>>]
    /\ UNCHANGED storeVars
    /\ UNCHANGED <<appended, truncated, pc, mutex, closedTables, fileOffset, compactionLock>>

NextAppend == BuildTrained \/ AppendIndex

SpecAppend == InitAppend /\ [][NextAppend]_vars

\* ------------------------------------------------------------------------
\* What the callers are promised
\* ------------------------------------------------------------------------

\* What Get returns for a key whose last write wrote v.
Expected(v) == IF v = Never \/ v = Tombstone THEN NotFound ELSE Found(v)

\* What Scan(lo, hi) returns when every key holds its last write.
ExpectedScan(lo, hi) ==
    LET ks == Ascend({k \in Keys : /\ KeyLeq(lo, k) /\ KeyLeq(k, hi)
                                   /\ latest[k] # Never /\ latest[k] # Tombstone})
    IN  [i \in 1..Len(ks) |-> Rec(ks[i], latest[ks[i]])]

StrictlyAscending(recs) ==
    \A i \in 1..(Len(recs) - 1) : KeyLess(recs[i].key, recs[i + 1].key)

\* The entries of a table's data block: what lies before the index offset
\* of the footer.
DataEntries(b) ==
    IterFrom(SubSeq(b, 1, Int64Of(SubSeq(b, Len(b) - 15, Len(b) - 8))[2]), 0)

\* The value of the last record of records with key k.
LastValue(records, k) ==
    records[CHOOSE i \in 1..Len(records) :
               /\ records[i].key = k
               /\ \A j \in (i + 1)..Len(records) : records[j].key # k].val

\* The constructor has returned and nothing was written since.
JustStarted == phase = "running" /\ restarted /\ writeCount = 0

\* C1: while the directory has not been reopened, Get(k) returns the value
\* of the last write to k whenever that write was a Put of a non-empty value.
C1_GetReturnsLastPut ==
    (phase = "running" /\ ~ restarted) =>
        \A k \in Keys :
           (latest[k] # Never /\ latest[k] # Tombstone) => Get(k) = Found(latest[k])

\* C2: while the directory has not been reopened, in every state after
\* Delete(k) in which no later Put(k) was issued, flushes and compactions
\* included, Get(k) returns absent and no Scan over a range that holds k
\* returns k.
C2_DeletedKeyStaysAbsent ==
    (phase = "running" /\ ~ restarted) =>
        \A k \in Keys :
           latest[k] = Tombstone =>
              /\ Get(k) = NotFound
              /\ \A lo, hi \in Keys :
                    (KeyLeq(lo, k) /\ KeyLeq(k, hi)) => k \notin KeysOf(Scan(lo, hi))

\* C3: while the directory has not been reopened, Scan(lo, hi) returns
\* exactly the pairs (k, v) with lo <= k <= hi where v is the non-empty value
\* of the last write to k.
C3_ScanReturnsLatest ==
    (phase = "running" /\ ~ restarted) =>
        \A lo, hi \in Keys : Scan(lo, hi) = ExpectedScan(lo, hi)

\* C4: once a new engine was constructed on the directory of a closed one,
\* after one restart and after any later one, Get(k) returns for every key
\* what its last write before Close stored: the value of a Put, absent for a
\* Delete.
C4_RestartPreservesWrites ==
    JustStarted => \A k \in Keys : Get(k) = Expected(atClose[k])

\* C5: the entries of every L0 table that adaptiveFlush wrote are in
\* strictly ascending key order.
C5_FlushedTablesAscending ==
    \A t \in sstFiles : t.kind = "l0" => StrictlyAscending(DataEntries(t.bytes))

\* The value of key k in the newest of the tables that holds it.
NewestValue(tables, k) ==
    LET i == CHOOSE i \in 1..Len(tables) :
                /\ k \in KeysOf(DataEntries(tables[i].bytes))
                /\ \A j \in (i + 1)..Len(tables) :
                      k \notin KeysOf(DataEntries(tables[j].bytes))
        es == DataEntries(tables[i].bytes)
    IN  es[CHOOSE n \in 1..Len(es) : es[n].key = k].val

\* C6: when every input table of a compaction is strictly ascending, the
\* table it writes holds every key of the inputs once, in strictly ascending
\* order, each with the value of the newest input that holds the key.
C6_MergeKeepsNewestOnce ==
    \A id \in Shards :
       (/\ comp[id].pc = "merged"
        /\ \A i \in 1..Len(comp[id].inputTables) :
              StrictlyAscending(DataEntries(comp[id].inputTables[i].bytes)))
       => LET out == DataEntries(comp[id].newSST[1].bytes)
              ins == comp[id].inputTables
          IN  /\ StrictlyAscending(out)
              /\ KeysOf(out) = UNION {KeysOf(DataEntries(ins[i].bytes)) : i \in 1..Len(ins)}
              /\ \A n \in 1..Len(out) : out[n].val = NewestValue(ins, out[n].key)

\* C7: when a compaction of a shard has run to its end and nothing was
\* written meanwhile, Get of every key and Scan of every range return what
\* they returned when the compaction began.
C7_CompactionKeepsReads ==
    \A id \in Shards :
       (phase = "running" /\ before[id].valid /\ comp[id].pc = "idle") =>
          /\ \A k \in Keys : Get(k) = before[id].gets[k]
          /\ \A lo, hi \in Keys : Scan(lo, hi) = before[id].scans[<<lo, hi>>]

\* C8: the checkpoint table a constructor wrote holds, for every key of the
\* WAL records it replayed, the value of the last of those records.
C8_CheckpointHoldsLastRecord ==
    \A k \in KeysOf(replayed.wal) :
       \E t \in replayed.tables :
          /\ t.shard = getShard(k)
          /\ \E i \in 1..Len(DataEntries(t.bytes)) :
                DataEntries(t.bytes)[i] = Rec(k, LastValue(replayed.wal, k))

\* C9: when a constructor that replayed WAL records has returned, the WAL
\* has size 0, iterating it yields nothing, and Get returns the last
\* replayed value of every replayed key whose last record is a Put.
C9_CheckpointEmptiesWal ==
    (JustStarted /\ Len(replayed.wal) > 0) =>
        /\ WalSize(wal) = 0
        /\ LoadAll(wal) = <<>>
        /\ \A k \in KeysOf(replayed.wal) :
              LastValue(replayed.wal, k) # Tombstone
                 => Get(k) = Found(LastValue(replayed.wal, k))

\* What a caller of the engine sees of an index's answer for a key: the
\* value it holds, absent when it holds none or a tombstone.
IndexAnswer(lis, k) ==
    IF lis = <<>> THEN NotFound
    ELSE LET r == LearnedGet(lis[1], k)
         IN  IF r.ok /\ r.val # Tombstone THEN r ELSE NotFound

\* C10: a learned index that a constructor loaded from a *.li file answers
\* Get for every key as the index rebuilt from the shard's tables at that
\* moment does.
C10_LoadedIndexAgreesWithRebuilt ==
    \A id \in Shards :
       loaded[id].hit =>
          \A k \in Keys : IndexAnswer(loaded[id].li, k) = IndexAnswer(loaded[id].fresh, k)

\* The keys that have a record in a shard: in its MemTable, in one of its
\* learned indexes or in the data block of one of its tables.
StoredKeys(sh) ==
    (DOMAIN sh.mutableMem)
      \cup KeysOf(AllRecords(sh.learnedIndexes))
      \cup UNION {KeysOf(DataEntries(FileBytes(sh.sstables[i]))) : i \in 1..Len(sh.sstables)}

\* C11: in every state and for every shard, the Bloom filter reports every
\* key present that has a record in the shard's MemTable, in one of its
\* learned indexes or in one of its tables.
C11_BloomCoversStoredKeys ==
    \A id \in Shards :
       \A k \in StoredKeys(shards[id]) : BloomContains(shards[id].bloom, k)

C13_IndexFindsEveryKey ==
    built.li # <<>> =>
       \A i \in 1..Len(built.data) :
          LearnedGet(built.li[1], built.data[i].key) = Found(built.data[i].val)

\* An index over the wide data was built with a model that predicts a
\* position before the array for one key and one after it for another.
C13_Witness ==
    /\ built.li # <<>>
    /\ Len(built.data) = WideLen
    /\ \E k1, k2 \in DOMAIN built.model :
          built.model[k1] < 0 /\ built.model[k2] >= WideLen

\* The value a table's data block holds for key k: that of its first entry
\* with the key.
TableValue(t, k) ==
    LET es == DataEntries(FileBytes(t))
    IN  es[CHOOSE n \in 1..Len(es) :
              es[n].key = k /\ \A j \in 1..(n - 1) : es[j].key # k].val

\* The value of key k in the table latest in the view that holds it.
NewestTableValue(tables, k) ==
    TableValue(tables[CHOOSE i \in 1..Len(tables) :
                         /\ k \in KeysOf(DataEntries(FileBytes(tables[i])))
                         /\ \A j \in (i + 1)..Len(tables) :
                               k \notin KeysOf(DataEntries(FileBytes(tables[j])))], k)

\* The keys with an entry in the data block of a table of the view.
TableKeys(sh) ==
    UNION {KeysOf(DataEntries(FileBytes(sh.sstables[i]))) : i \in 1..Len(sh.sstables)}

\* No table was flushed for the shard since its compaction wrote its output.
NoFlushSince(id) ==
    \A t \in sstFiles :
       (t.shard = id /\ t.kind = "l0") => t.ts < comp[id].newSST[1].ts

\* C14: a compaction with no flush meanwhile leaves, when it installs its
\* output, an empty L0 list and one more L1 table, and, when it ends, one
\* learned index, which returns for every key of a table of the shard the
\* value of the latest table of the view that holds the key.
C14_CompactionRebuildsIndex ==
    [][\A id \in Shards :
          /\ (CompactInstall(id) /\ NoFlushSince(id)) =>
                /\ shards'[id].l0SSTables = <<>>
                /\ Len(shards'[id].l1SSTables) = Len(shards[id].l1SSTables) + 1
          /\ (CompactCleanup(id) /\ NoFlushSince(id)) =>
                /\ shards'[id].l0SSTables = <<>>
                /\ Len(shards'[id].learnedIndexes) = 1
                /\ \A k \in TableKeys(shards'[id]) :
                      LearnedGet(shards'[id].learnedIndexes[1], k)
                        = Found(NewestTableValue(shards'[id].sstables, k))]_vars

\* The records a MemTable holds, as a set.
MemRecords(m) == {Rec(k, m[k]) : k \in DOMAIN m}

\* The entries of the data block of table t, as a set.
TableRecords(t) ==
    LET es == DataEntries(FileBytes(t)) IN {es[i] : i \in 1..Len(es)}

\* The MemTable of the shard of key once Put(key, val) has stored the record.
MemAfterPut(key, val) == MemPut(shards[getShard(key)].mutableMem, key, val)

\* adaptiveFlush at time now on a shard of shs whose MemTable is below the
\* floor returns the shard as it was and creates no file.
FlushBelowFloor(shs, now) ==
    \A id \in Shards :
       MemCount(shs[id].mutableMem) < MinFlushCount =>
          adaptiveFlush(shs[id], now) = [shard |-> shs[id], created |-> {}, spawn |-> FALSE]

\* C15: with a flush threshold no lower than the floor of adaptiveFlush, the
\* MemTable of a shard holds fewer keys than the threshold when a Put returns;
\* a Put that brings it to the threshold appends one table to the L0 list,
\* with the records of the MemTable and no other, and leaves the MemTable
\* empty, and any other Put leaves the L0 list alone; a flush of a MemTable
\* below the floor changes nothing.
C15_FlushAtThreshold ==
    [][(MemTableFlushThreshold >= MinFlushCount) =>
          /\ \A key \in Keys, val \in {ValueOf(ops), Tombstone} :
                Put(key, val) =>
                   LET id == getShard(key)
                       m == MemAfterPut(key, val)
                       l0 == shards[id].l0SSTables
                       l0n == shards'[id].l0SSTables
                   IN  /\ MemCount(shards'[id].mutableMem) < MemTableFlushThreshold
                       /\ IF MemCount(m) >= MemTableFlushThreshold
                          THEN /\ Len(l0n) = Len(l0) + 1
                               /\ SubSeq(l0n, 1, Len(l0)) = l0
                               /\ TableRecords(l0n[Len(l0n)]) = MemRecords(m)
                               /\ Len(DataEntries(FileBytes(l0n[Len(l0n)]))) = MemCount(m)
                               /\ l0n[Len(l0n)] \in sstFiles'
                               /\ shards'[id].mutableMem = NewMemTable
                          ELSE /\ l0n = l0
                               /\ shards'[id].mutableMem = m
                               /\ sstFiles' = sstFiles
          /\ FlushBelowFloor(shards, clock)
          /\ FlushBelowFloor(shards', clock')]_vars

\* A Put has brought the MemTable to the threshold: the shard has an empty
\* MemTable and an L0 table of that many records; and another Put has
\* stored a record the MemTable keeps.
C15_Witness ==
    /\ ops = MaxOps
    /\ \E id \in Shards :
          /\ MemCount(shards[id].mutableMem) = 1
          /\ shards[id].l0SSTables # <<>>
          /\ Len(DataEntries(FileBytes(shards[id].l0SSTables[1]))) = MemTableFlushThreshold

\* The bounds Scan is called with.
ScanEnds == Keys \cup {MinKey, MaxKey}

\* C16: the sequence Scan(lo, hi) returns is strictly ascending by key, has
\* only keys of [lo, hi] and has no value of length zero.
C16_ScanAscendingInRange ==
    \A lo \in ScanEnds, hi \in ScanEnds :
       LET r == Scan(lo, hi)
       IN  /\ \A i \in 1..(Len(r) - 1) : KeyLess(r[i].key, r[i + 1].key)
           /\ \A i \in 1..Len(r) :
                 /\ KeyLeq(lo, r[i].key)
                 /\ KeyLeq(r[i].key, hi)
                 /\ Len(r[i].val) > 0

\* A Scan over a MemTable and a table that between them hold a tombstone, a
\* key outside the range and two keys the Scan returns.
C16_Witness ==
    /\ Len(Scan(KeyOf(0), KeyOf(1))) = 2
    /\ latest[KeyOf(16)] = Tombstone
    /\ \E id \in Shards :
          /\ shards[id].mutableMem # NewMemTable
          /\ shards[id].sstables # <<>>

\* C17: under fair scheduling every Put and every Delete that was called
\* returns.
C17_PutReturns ==
    \A c \in Writers : (pc[c].at # "idle") ~> (pc[c].at = "idle")

\* A Put waits for shard.mutex, which the other writer holds, while the
\* channel is full and a goroutine holds a record for it.
C17_Witness ==
    /\ pc["w1"].at = "lock"
    /\ mutex[getShard(pc["w1"].key)].writer = "w2"
    /\ Len(writeCh) = WalBufferSize
    /\ helpers # EmptyBag

\* C18: once Close has returned, Get reports every key absent, and a Put or
\* a Delete changes neither the shards (MemTable, Bloom filter, table lists)
\* nor the table files nor the WAL.
C18_ClosedIsInert ==
    [][phase' = "closed" =>
          /\ \A k \in Keys : ClosedGet(k)' = NotFound
          /\ phase = "closed" =>
                /\ shards' = shards
                /\ sstFiles' = sstFiles
                /\ wal' = wal]_vars

\* C19: when WAL.Truncate returns, Size is 0 and an iterator opened then
\* yields no entry and reports the end of the file; after a truncation an
\* iterator yields the entries appended since the last one, and no other.
C19_TruncateEmptiesWal ==
    [][/\ WalTruncateCall =>
             /\ WalSize(wal') = 0
             /\ WalIterate(wal') = <<>>
             /\ WalEndFrom(wal', 0) = "EOF"
       /\ truncated' # NeverTruncated => WalIterate(wal') = appended']_vars

\* A truncation has removed entries, and entries were appended after it.
C19_Witness ==
    /\ truncated = MaxAppends
    /\ Len(appended) = 2
    /\ WalSize(wal) > 0

\* C20: an iterator opened after a sequence of Append calls yields the keys
\* and values appended, in the order of the calls, and then reports the end
\* of the file.
C20_IterateYieldsAppended ==
    truncated = NeverTruncated =>
       /\ WalIterate(wal) = appended
       /\ WalEndFrom(wal, 0) = "EOF"

\* Three entries were appended, one with an empty value, one with a negative
\* key and one with a time other than zero.
C20_Witness ==
    /\ truncated = NeverTruncated
    /\ Len(appended) = MaxAppends
    /\ appended[1].val = <<>>
    /\ appended[2].key = MinKey
    /\ SubSeq(wal, 5, 12) = Int64Bytes(MaxKey)

\* C21: a Get that runs while another Get holds the read lock of the shard
\* returns what Get returns when it runs alone on the same state.
C21_ConcurrentGetsAgree ==
    \A c \in Readers : pc[c].at = "done" => pc[c].res = Get(pc[c].key)

\* The table at place i of a view holds a value, not a tombstone, for key k.
HoldsValue(view, i, k) ==
    /\ k \in KeysOf(DataEntries(FileBytes(view[i])))
    /\ TableValue(view[i], k) # <<>>

\* C22: of two tables of a shard's view (L1 list, then L0 list) that hold a
\* value for the same key, the later in the view holds the value written
\* later.  Every Put of the model writes a value greater than the values
\* written before it.
C22_LaterInViewIsNewer ==
    \A id \in Shards : \A k \in Keys :
       \A i, j \in 1..Len(shards[id].sstables) :
          (i < j /\ HoldsValue(shards[id].sstables, i, k)
                 /\ HoldsValue(shards[id].sstables, j, k))
             => TableValue(shards[id].sstables[i], k)[1]
                   <= TableValue(shards[id].sstables[j], k)[1]

\* The tables of a list, and the keys of the data block of a table.
TablesOf(list) == {list[i] : i \in 1..Len(list)}
KeysIn(t) == KeysOf(DataEntries(FileBytes(t)))

\* The L0 list of shard sh without the tables of inputs, in its order.
WithoutInputs(sh, inputs) ==
    SelectSeq(sh.l0SSTables, LAMBDA t : t \notin TablesOf(inputs))

\* C23: when a compaction installs its output, the new L0 list is the old
\* one without the compaction's inputs, in the same order (the tables
\* flushed during the merge stay), the tables that leave the L0 list are
\* the inputs, the L1 list gains the output as its last table, and every
\* key of an input table is a key of the output.
C23_InstallKeepsNewFlushes ==
    [][\A id \in Shards :
          CompactInstall(id) =>
             /\ shards'[id].l0SSTables = WithoutInputs(shards[id], comp[id].inputTables)
             /\ TablesOf(shards[id].l0SSTables) \ TablesOf(shards'[id].l0SSTables)
                   = TablesOf(comp[id].inputTables)
             /\ shards'[id].l1SSTables
                   = Append(shards[id].l1SSTables, comp[id].newSST[1])
             /\ \A t \in TablesOf(comp[id].inputTables) :
                   KeysIn(t) \subseteq KeysIn(comp[id].newSST[1])]_vars

\* A compaction has installed its output and the L0 list holds a table
\* flushed after the merge began.
C23_Witness ==
    \E id \in Shards :
       /\ comp[id].pc = "installed"
       /\ shards[id].l0SSTables # <<>>
       /\ \A t \in TablesOf(shards[id].l0SSTables) : t.ts > comp[id].newSST[1].ts
       /\ comp[id].newSST[1] = shards[id].l1SSTables[Len(shards[id].l1SSTables)]

\* C24: whenever the L0 list of a shard holds CompactionThreshold tables or
\* more, a compactShard goroutine is waiting to run or a compaction is under
\* way, so that the tables are merged without another Put.
C24_FullL0HasCompaction ==
    \A id \in Shards :
       Len(shards[id].l0SSTables) >= CompactionThreshold
          => (spawned[id] > 0 \/ comp[id].pc # "idle")

\* The list after is the list before with tables appended, or the same.
Extends(after, before_) ==
    Len(after) >= Len(before_) /\ SubSeq(after, 1, Len(before_)) = before_

\* C25: while every compaction meets an I/O failure in its merge, no step
\* takes a table out of an L0 list, none changes an L1 list, and no file
\* of an L0 table is removed.
C25_FailedMergeChangesNothing ==
    [][\A id \in Shards :
          /\ Extends(shards'[id].l0SSTables, shards[id].l0SSTables)
          /\ shards'[id].l1SSTables = shards[id].l1SSTables
          /\ \A t \in TablesOf(shards[id].l0SSTables) :
                t \in sstFiles => t \in sstFiles']_vars

\* The records handed to BatchWrite so far, while the WAL was never
\* truncated: the records of the WAL file.
WrittenRecords == {LoadAll(wal)[i] : i \in 1..Len(LoadAll(wal))}

\* C26: when the first Close of a store has returned, the record of the
\* last Put or Delete of every key, a call that returned before Close was
\* called, has been given to BatchWrite.
C26_CloseWritesEveryRecord ==
    (phase = "closed" /\ ~restarted) =>
       \A k \in Keys : latest[k] # Never => Rec(k, latest[k]) \in WrittenRecords

\* Every record of a Put that was called has reached the WAL file, and no
\* Put is under way.
AllWritten ==
    /\ writeCh = <<>>
    /\ helpers = EmptyBag
    /\ walBuffer = <<>>
    /\ \A c \in Writers : pc[c].at = "idle"

\* C27: once the records of all Puts are in the WAL, the last record the
\* WAL holds for a key carries the value that was applied last to the
\* MemTable for that key.
C27_WalOrderIsApplyOrder ==
    AllWritten =>
       \A k \in Keys : latest[k] # Never => LastValue(LoadAll(wal), k) = latest[k]

\* C28: the index to which Put, Get and the WAL replay route a key in a
\* store of n shards is one of 0 .. n - 1.
C28_RouteInRange ==
    \A c \in Callers :
       pc[c].at = "routed" => pc[c].idx \in 0..(pc[c].count - 1)

\* The goroutines that are in compactShard for shard id after a TryLock
\* that returned true.
PastGuard(id) ==
    {c \in Writers : pc[c].at \in GuardedPlaces /\ pc[c].id = id}

\* C29: after every step at most one goroutine is past the guard of a shard,
\* and the guard is held exactly while one is (it is free again after every
\* return); a compactShard whose TryLock finds the guard held returns and
\* changes nothing of the store.
C29_OneCompactionPastGuard ==
    [][/\ \A id \in Shards :
             /\ Cardinality(PastGuard(id)') <= 1
             /\ compactionLock'[id] <=> (PastGuard(id)' # {})
       /\ \A c \in Writers :
             (GuardTryLock(c) /\ compactionLock[pc[c].id]) =>
                /\ pc'[c].at = "refused"
                /\ UNCHANGED <<storeVars, compactionLock>>]_vars

\* One goroutine is about to install its output, and the other has found the
\* guard held and returned.
C29_Witness ==
    \E c1, c2 \in Writers :
       /\ pc[c1].at = "install"
       /\ pc[c2].at = "refused"
       /\ \A id \in Shards : compactionLock[id]

\* C30: the iterator of a table written by the Builder yields the records
\* that were added, in the order of the Add calls, and nothing else.
C30_IteratorYieldsAdded ==
    \A c \in Callers :
       pc[c].at = "iterated" => (pc[c].opened /\ pc[c].out = pc[c].recs)

\* The records of the layers of a shard in the order of the claim: the
\* MemTable, the learned indexes from the newest to the oldest, the L0
\* tables from the newest to the oldest, the L1 tables likewise.
LayerContents(sh) ==
    LET nl == Len(sh.learnedIndexes)
        n0 == Len(sh.l0SSTables)
        n1 == Len(sh.l1SSTables)
    IN  <<MapRecords(sh.mutableMem)>>
          \o [i \in 1..nl |-> sh.learnedIndexes[nl + 1 - i].Records]
          \o [i \in 1..n0 |-> DataEntries(FileBytes(sh.l0SSTables[n0 + 1 - i]))]
          \o [i \in 1..n1 |-> DataEntries(FileBytes(sh.l1SSTables[n1 + 1 - i]))]

\* The values a layer holds for key k.
ValuesAt(layer, k) == {layer[i].val : i \in {j \in 1..Len(layer) : layer[j].key = k}}

\* The places of the layers that hold key k.
LayersWith(layers, k) == {n \in 1..Len(layers) : ValuesAt(layers[n], k) # {}}

\* The answer r is the one the first layer of layers that holds k gives.
AnswerOfFirstLayer(r, layers, k) ==
    IF LayersWith(layers, k) = {} THEN r = NotFound
    ELSE \E n \in LayersWith(layers, k) :
            /\ \A m \in LayersWith(layers, k) : n <= m
            /\ \/ r.ok /\ r.val # <<>> /\ r.val \in ValuesAt(layers[n], k)
               \/ r = NotFound /\ <<>> \in ValuesAt(layers[n], k)

\* C31: a Get whose key passes the Bloom filter returns the value of the
\* first layer that holds the key, in the order MemTable, learned indexes,
\* L0 tables, L1 tables, each from the newest to the oldest; absent when
\* that value is empty or when no layer holds the key.
C31_GetAnswersFromFirstLayer ==
    phase = "running" =>
       \A k \in Keys :
          BloomContains(shards[getShard(k)].bloom, k) =>
             AnswerOfFirstLayer(Get(k), LayerContents(shards[getShard(k)]), k)

\* The records Scan(lo, hi) returns, as a set.
ScanSet(lo, hi) == {Scan(lo, hi)[i] : i \in 1..Len(Scan(lo, hi))}

\* C32: while no call and no compaction is under way, Scan(lo, hi) holds the
\* pair (k, v) for a key k of the range exactly when Get(k) returns v.
C32_ScanAgreesWithGet ==
    (phase = "running" /\ \A id \in Shards : comp[id].pc = "idle") =>
       \A lo, hi, k \in Keys :
          (KeyLeq(lo, k) /\ KeyLeq(k, hi)) =>
             /\ \A rec \in ScanSet(lo, hi) : rec.key = k => Get(k) = Found(rec.val)
             /\ Get(k).ok => Rec(k, Get(k).val) \in ScanSet(lo, hi)

\* C33: a Put, whether or not its flush fails, leaves every key it did not
\* write readable with the value Get returned before, and makes the value it
\* wrote readable.
C33_FailedFlushLosesNothing ==
    [][\A k \in FlushKeys :
          IF latest'[k] = latest[k]
          THEN ShardGet(shards'[getShard(k)], k) = ShardGet(shards[getShard(k)], k)
          ELSE ShardGet(shards'[getShard(k)], k) = Found(latest'[k])]_vars

\* C34: a constructor whose startup checkpoint fails leaves the WAL as it
\* found it: when it has returned, the WAL holds every record it replayed.
C34_FailedCheckpointKeepsWal ==
    (JustStarted /\ "failed" \in DOMAIN replayed) =>
        /\ Len(replayed.wal) > 0
        /\ LoadAll(wal) = replayed.wal

\* A constructor has returned after a failed checkpoint of replayed records.
C34_Witness ==
    /\ JustStarted
    /\ "failed" \in DOMAIN replayed
    /\ Len(replayed.wal) = WalBatchSize
    /\ replayed.tables = {}

\* C35: once Reset has returned and while no Put or Delete has been called
\* since, the WAL stays empty: the WAL writer appends no record of a call
\* that returned before the Reset.
C35_NothingWrittenAfterReset ==
    (phase = "running" /\ ~restarted /\ writeCount = 0) => LoadAll(wal) = <<>>

\* C36: once Reset has returned and while no Put or Delete has been called
\* since, no shard has a table in its L1 list or a record in a learned
\* index: a compaction that started before the Reset installs nothing.
C36_NoInstallAfterReset ==
    (phase = "running" /\ ~restarted /\ writeCount = 0) =>
        \A id \in Shards :
           /\ shards[id].l1SSTables = <<>>
           /\ AllRecords(shards[id].learnedIndexes) = <<>>

\* C37: after an Append of records whose keys lie above every key of the
\* index, Get returns the stored value of every key of the index, the keys
\* it held before and the appended ones.
C37_AppendKeepsEveryKey ==
    (built.li # <<>> /\ Len(built.li[1].Records) > Len(built.data)) =>
        \A i \in 1..Len(built.li[1].Records) :
           LearnedGet(built.li[1], built.li[1].Records[i].key)
              = Found(built.li[1].Records[i].val)

\* C38: an iterator over a WAL file whose entry i is written in part or has
\* a stored CRC that does not match yields the i - 1 entries before it, in
\* order, and nothing else.
C38_IterationStopsAtDamage ==
    pc["w1"].at = "damaged" =>
        /\ WalIterate(wal) = SubSeq(appended, 1, pc["w1"].entry - 1)
        /\ WalEndFrom(wal, 0) # "EOF"

\* The CRC of the first of three entries was changed; the entries after it
\* are whole.
C38_Witness ==
    /\ pc["w1"].at = "damaged"
    /\ pc["w1"].kind = "crc"
    /\ pc["w1"].entry = 1
    /\ Len(appended) = MaxAppends
    /\ WalIterFrom(wal, WalEntryOffset(appended, 1)) = Tail(appended)

\* C39: an entry of which a byte of the timestamp, the key, the value size
\* or the value differs from what Append wrote is rejected: Next at that
\* entry returns an error.
C39_CrcCoversEntry ==
    pc["w1"].at = "altered" =>
        WalNext(wal, WalEntryOffset(appended, pc["w1"].entry - 1)).err # ""

\* C40: a table that compaction has closed and removed is in none of the
\* lists of its shard, and no Get or Scan that is still running reached it
\* through the view it found under the read lock.
C40_ClosedInputsUnused ==
    \A t \in closedTables :
       /\ \A id \in Shards :
             t \notin TablesOf(shards[id].l0SSTables) \cup TablesOf(shards[id].l1SSTables)
                        \cup TablesOf(shards[id].sstables)
       /\ \A c \in Readers : pc[c].at = "reading" => t \notin TablesOf(pc[c].tables)

\* The inputs of a compaction were closed while a Get and a Scan were
\* running on the view with the table that replaced them.
C40_Witness ==
    /\ closedTables # {}
    /\ \E c, d \in Readers :
          /\ pc[c].at = "reading" /\ pc[c].op = "get"
          /\ pc[d].at = "reading" /\ pc[d].op = "scan"
          /\ pc[c].tables # <<>>
          /\ comp[pc[c].shard].pc = "idle"

==========================================================================
